---- MODULE Spec2Model ----
(***************************************************************************)
(* UserLens: the analyze command (src/src/core/core-api.ts, the CLI part)  *)
(* and the CacheManager (src/unnamed/part_004) as a state machine over a   *)
(* project directory, its metadata cache and the analysis output directory.*)
(***************************************************************************)
EXTENDS Integers, Sequences, FiniteSets, TLC

(* ------------------------------ bounds -------------------------------- *)
\* analyze runs started in one behaviour
MaxRuns == 2
\* injected I/O faults (mkdir, cache write, cache unlink, artifact I/O)
MaxFaults == 1

(* ------------------------------ paths --------------------------------- *)
\* process.cwd(), as the list of its segments; "/" marks an absolute path
projectRoot == <<"/", "proj">>

\* the project-relative paths of the component files the walker can yield,
\* in the order in which it yields them
FileOrder == << <<"src", "ContactForm.jsx">>, <<"src", "Navigation.jsx">> >>

Files == {FileOrder[k] : k \in 1..Len(FileOrder)}

\* path.resolve(projectRoot, rel)
pathResolve(root, rel) == root \o rel

\* path.isAbsolute
pathIsAbsolute(p) == Len(p) > 0 /\ p[1] = "/"

Min(a, b) == IF a < b THEN a ELSE b

\* length of the longest common prefix of two segment lists
CommonPrefixLen(a, b) ==
    CHOOSE n \in 0..Min(Len(a), Len(b)) :
        /\ \A k \in 1..n : a[k] = b[k]
        /\ (n = Min(Len(a), Len(b)) \/ a[n + 1] # b[n + 1])

\* path.relative(from, to) for absolute from and to: one ".." for each segment
\* of from below the common prefix, then what is left of to
pathRelative(from, to) ==
    LET n == CommonPrefixLen(from, to)
    IN  [k \in 1..(Len(from) - n) |-> ".."] \o SubSeq(to, n + 1, Len(to))

Includes(seq, x) == \E k \in 1..Len(seq) : seq[k] = x

SeqToSet(seq) == {seq[k] : k \in 1..Len(seq)}

(* --------------------------- directories ------------------------------ *)
\* a directory is a function from the names of the files in it to their content
EmptyDir == [x \in {} |-> TRUE]

WriteFile(dir, name, content) ==
    [x \in DOMAIN dir \cup {name} |-> IF x = name THEN content ELSE dir[x]]

Unlink(dir, name) == [x \in DOMAIN dir \ {name} |-> dir[x]]

(* --------------------------- source files ----------------------------- *)
\* what a project file can be: not there, there but unreadable, or one of three
\* source texts, the last of which the parser rejects
Sources == {"form", "nav", "broken"}

FileStates == {"absent", "unreadable"} \cup Sources

\* crypto.createHash('md5').update(content).digest('hex'): a fingerprint that
\* differs for different texts (collisions are out of scope)
calculateStringMD5(content) == [md5 |-> content]

\* ReactAnalyzer.parseComponent on a readable file: the metadata, with the
\* absolute path it was given as filePath; "throw" for a syntax error
parseComponent(absoluteFilePath, content) ==
    CASE content = "form" ->
            [name |-> "ContactForm", filePath |-> absoluteFilePath,
             userActions |-> << [type |-> "submit", trigger |-> "ContactForm",
                                description |-> "Submit the contact form",
                                outcome |-> "Sends the form data"] >>,
             semanticCategory |-> "FORM"]
      [] content = "nav" ->
            [name |-> "Navigation", filePath |-> absoluteFilePath,
             userActions |-> << [type |-> "navigation", trigger |-> "Navigation",
                                description |-> "Click the navigation",
                                outcome |-> "Navigates to another page"] >>,
             semanticCategory |-> "NAVIGATION"]
      [] OTHER -> [throw |-> "SyntaxError"]

Threw(r) == "throw" \in DOMAIN r

(* --------------------------- CacheManager ----------------------------- *)
\* the name of the cache file of a source path: the fingerprint of the path
getCacheFilePath(sourceFilePath) == calculateStringMD5(sourceFilePath)

\* the text of a cache file that JSON.parse rejects (or that cannot be read)
Garbage == [garbage |-> TRUE]

\* what cacheComponent writes
CacheEntry(sourceFileHash, metadata) ==
    [sourceFileHash |-> sourceFileHash, componentMetadata |-> metadata]

\* the validation of getCachedComponent: parses, has a string sourceFileHash and
\* a componentMetadata
EntryIsValid(data) ==
    /\ "garbage" \notin DOMAIN data
    /\ "sourceFileHash" \in DOMAIN data
    /\ "componentMetadata" \in DOMAIN data

\* getCachedComponent, its result: the entry, or "null" (no file, unreadable,
\* unparsable, or invalid)
getCachedComponentResult(dir, sourceFilePath) ==
    LET k == getCacheFilePath(sourceFilePath)
    IN  IF k \in DOMAIN dir /\ EntryIsValid(dir[k]) THEN dir[k] ELSE [null |-> TRUE]

IsNull(r) == "null" \in DOMAIN r

\* a lookup that also unlinks the cache files that do not parse
getCachedComponentPurgeAll(dir, sourceFilePath, unlinkOk) ==
    LET k == getCacheFilePath(sourceFilePath)
    IN  IF k \in DOMAIN dir /\ ~EntryIsValid(dir[k]) /\ unlinkOk THEN Unlink(dir, k) ELSE dir

\* getCachedComponent, its effect on the cache directory: an entry that parses
\* but fails the validation is unlinked, unless the unlink fails (the failure
\* is caught and logged); an entry that does not parse is left where it is
getCachedComponentEffect(dir, sourceFilePath, unlinkOk) ==
    LET k == getCacheFilePath(sourceFilePath)
    IN  IF /\ k \in DOMAIN dir
           /\ "garbage" \notin DOMAIN dir[k]
           /\ ~EntryIsValid(dir[k])
           /\ unlinkOk
        THEN Unlink(dir, k)
        ELSE dir

\* whether the lookup of sourceFilePath attempts an unlink at all
LookupUnlinks(dir, sourceFilePath) ==
    LET k == getCacheFilePath(sourceFilePath)
    IN  k \in DOMAIN dir /\ "garbage" \notin DOMAIN dir[k] /\ ~EntryIsValid(dir[k])

\* a cacheComponent that stores nothing
cacheComponentSkip(dir, sourceFilePath, sourceFileHash, metadata, io) == dir

\* cacheComponent: fs.writeFile of the entry. "ok" writes it; "fail" throws
\* with the file as it was; "truncated" throws after the file was opened for
\* writing, which leaves an unparsable file
cacheComponent(dir, sourceFilePath, sourceFileHash, metadata, io) ==
    LET k == getCacheFilePath(sourceFilePath)
    IN  CASE io = "ok" -> WriteFile(dir, k, CacheEntry(sourceFileHash, metadata))
          [] io = "truncated" -> WriteFile(dir, k, Garbage)
          [] OTHER -> dir

\* removeCachedComponent: unlink; ENOENT is not an error; any other failure
\* is thrown again
removeCachedComponentThrows(dir, sourceFilePath, unlinkOk) ==
    getCacheFilePath(sourceFilePath) \in DOMAIN dir /\ ~unlinkOk

removeCachedComponent(dir, sourceFilePath, unlinkOk) ==
    LET k == getCacheFilePath(sourceFilePath)
    IN  IF k \in DOMAIN dir /\ unlinkOk THEN Unlink(dir, k) ELSE dir

\* the cache files in the order readdir lists them
KeyOrder == [k \in 1..Len(FileOrder) |-> getCacheFilePath(FileOrder[k])]

\* whether getAllCachedFilePaths keeps a cache file: it parses and its
\* componentMetadata has a string filePath
HasStoredFilePath(data) ==
    /\ "garbage" \notin DOMAIN data
    /\ "componentMetadata" \in DOMAIN data
    /\ "filePath" \in DOMAIN data.componentMetadata

RECURSIVE StoredPathsFrom(_, _)
StoredPathsFrom(dir, n) ==
    IF n > Len(KeyOrder) THEN << >>
    ELSE (IF KeyOrder[n] \in DOMAIN dir /\ HasStoredFilePath(dir[KeyOrder[n]])
          THEN << dir[KeyOrder[n]].componentMetadata.filePath >>
          ELSE << >>) \o StoredPathsFrom(dir, n + 1)

\* getAllCachedFilePaths: the componentMetadata.filePath stored in each cache
\* file, in directory order
getAllCachedFilePaths(dir) == StoredPathsFrom(dir, 1)

\* a create that hands out an instance whatever became of the mkdir
CacheManagerCreateAlways(mkdirOk) == "instance"

\* CacheManager.create: mkdir of the metadata directory; it throws when the
\* directory cannot be created
CacheManagerCreate(mkdirOk) == IF mkdirOk THEN "instance" ELSE "throw"

(* ---------------------- PatternMatcher (per run) ---------------------- *)
\* the pattern keywords that are substrings of a component's lower-cased name
\* (String.prototype.includes over the keywords of PatternMatcher.patterns)
KeywordsIn(name) ==
    CASE name = "ContactForm" -> {"form"}
      [] name = "Navigation" -> {"nav"}
      [] name = "LoginForm" -> {"login", "form"}
      [] name = "SearchBar" -> {"search"}
      [] name = "SettingsForm" -> {"settings", "form"}
      [] name = "NotificationList" -> {"notification", "list"}
      [] OTHER -> {}

\* PatternMatcher.patterns in declared order: name, action phrases, component
\* keywords
patterns ==
    << [name |-> "authentication",
        actions |-> {"submit credentials", "create account", "reset password"},
        components |-> {"login", "signin", "register", "signup", "password", "auth"}],
       [name |-> "search",
        actions |-> {"enter search term", "apply filter", "view results"},
        components |-> {"search", "filter", "results", "query"}],
       [name |-> "form-submission",
        actions |-> {"fill form", "validate input", "submit data"},
        components |-> {"form", "input", "submit", "field", "validation"}],
       [name |-> "crud",
        actions |-> {"create new", "update existing", "delete item", "view items"},
        components |-> {"create", "add", "edit", "update", "delete", "remove", "list"}],
       [name |-> "navigation",
        actions |-> {"navigate to", "open page", "go to section"},
        components |-> {"nav", "menu", "sidebar", "header", "footer", "link", "route"}],
       [name |-> "dashboard",
        actions |-> {"view statistics", "monitor data", "check status"},
        components |-> {"dashboard", "overview", "stats", "analytics", "widgets"}],
       [name |-> "settings",
        actions |-> {"change settings", "update preferences", "configure options"},
        components |-> {"settings", "preferences", "config", "options", "profile"}],
       [name |-> "notification",
        actions |-> {"view notifications", "mark as read", "dismiss alert"},
        components |-> {"notification", "alert", "message", "toast"}],
       [name |-> "cart-checkout",
        actions |-> {"add to cart", "remove item", "complete purchase"},
        components |-> {"cart", "basket", "checkout", "payment", "order"}],
       [name |-> "wizard",
        actions |-> {"proceed to next step", "go back", "complete process"},
        components |-> {"wizard", "step", "progress", "multi-step", "flow"}] >>

\* matchesPattern
matchesPattern(name, patternKeywords) == KeywordsIn(name) \cap patternKeywords # {}

\* components.flatMap(c => c.userActions)
RECURSIVE AllActions(_)
AllActions(comps) ==
    IF comps = << >> THEN << >> ELSE Head(comps).userActions \o AllActions(Tail(comps))

\* the pattern action phrases that are substrings of an action's lower-cased
\* description or outcome; the actions extractUserActions builds contain none
ActionPhrases(action) == IF "phrases" \in DOMAIN action THEN action.phrases ELSE {}

\* findMatchingActions
findMatchingActions(actions, patternActions) ==
    LET Matches(a) == ActionPhrases(a) \cap patternActions # {}
    IN  SelectSeq(actions, Matches)

\* calculateConfidence as the fraction num/den:
\* 0.7 * (components / keywords) + 0.3 * (actions / phrases), the action score
\* being 0 when no action matches
calculateConfidence(matchingComponents, matchingActions, pattern) ==
    LET mc == Len(matchingComponents)
        ma == Len(matchingActions)
        kw == Cardinality(pattern.components)
        na == Cardinality(pattern.actions)
    IN  [num |-> 7 * mc * na + 3 * ma * kw, den |-> 10 * kw * na]

\* a comparison that also puts an equal confidence first
ConfGreaterOrEqual(a, b) == a.num * b.den >= b.num * a.den

\* a.confidence > b.confidence
ConfGreater(a, b) == a.num * b.den > b.num * a.den

\* Array.prototype.sort((a, b) => b.confidence - a.confidence): stable,
\* descending; here the insertion of one element into a sorted list
RECURSIVE InsertByConfidence(_, _)
InsertByConfidence(sorted, p) ==
    IF sorted = << >> THEN << p >>
    ELSE IF ConfGreater(p.confidence, Head(sorted).confidence)
         THEN << p >> \o sorted
         ELSE << Head(sorted) >> \o InsertByConfidence(Tail(sorted), p)

RECURSIVE SortByConfidence(_)
SortByConfidence(seq) ==
    IF seq = << >> THEN << >>
    ELSE InsertByConfidence(SortByConfidence(SubSeq(seq, 1, Len(seq) - 1)), seq[Len(seq)])

RECURSIVE DetectFrom(_, _)
DetectFrom(comps, n) ==
    IF n > Len(patterns) THEN << >>
    ELSE LET pattern == patterns[n]
             Match(c) == matchesPattern(c.name, pattern.components)
             matching == SelectSeq(comps, Match)
             matchingActions == findMatchingActions(AllActions(matching), pattern.actions)
         IN  (IF Len(matching) > 0
              THEN << [name |-> pattern.name, components |-> matching,
                       actions |-> matchingActions,
                       confidence |->
                           calculateConfidence(matching, matchingActions, pattern)] >>
              ELSE << >>) \o DetectFrom(comps, n + 1)

\* detectPatterns
detectPatterns(comps) == SortByConfidence(DetectFrom(comps, 1))

\* s.toLowerCase().includes(word), for the names, triggers, descriptions and
\* outcomes of the components here and the words the workflow tests look for:
\* the words that are substrings of the lower-cased string
WordsIn(s) ==
    CASE s = "ContactForm" -> {"form"}
      [] s = "Navigation" -> {}
      [] s = "RegisterForm" -> {"register", "form"}
      [] s = "CreateAccount" -> {"create"}
      [] s = "LoginForm" -> {"login", "form"}
      [] s = "SearchBar" -> {"search"}
      [] s = "UserList" -> {"list"}
      [] s = "CheckoutButton" -> {"checkout", "check"}
      [] s = "SettingsForm" -> {"form"}
      [] s = "NotificationList" -> {"list"}
      [] s = "Card" -> {}
      [] s = "Submit the contact form" -> {"form", "submit"}
      [] s = "Click the navigation" -> {}
      [] s = "Submit the register form" -> {"register", "form", "submit"}
      [] s = "Click the create account" -> {"create", "create account"}
      [] s = "Submit the login form" -> {"login", "form", "submit"}
      [] s = "Enter information in the search bar" -> {"search", "form"}
      [] s = "Click the checkout button" -> {"checkout", "check"}
      [] s = "Sends the form data" -> {"form"}
      [] s = "Navigates to another page" -> {}
      [] s = "Performs the create account action" -> {"form", "create", "create account"}
      [] s = "Performs the checkout button action" -> {"form", "checkout", "check"}
      [] s = "Updates the input value" -> {"update"}
      [] s = "query" -> {}
      [] s = "enter search term" -> {"search"}
      [] s = "fill form" -> {"form"}

Has(s, words) == WordsIn(s) \cap words # {}

\* hasAuthenticationFlow
hasAuthenticationFlow(comps, actions) ==
    /\ \E k \in 1..Len(comps) : Has(comps[k].name, {"login", "signin", "register"})
    /\ \E k \in 1..Len(actions) :
          Has(actions[k].description, {"sign in", "log in", "create account"})

\* hasSearchFlow
hasSearchFlow(comps, actions) ==
    /\ \E k \in 1..Len(comps) : Has(comps[k].name, {"search", "filter", "results"})
    /\ \E k \in 1..Len(actions) : Has(actions[k].description, {"search", "filter", "find"})

\* hasFormSubmissionFlow
hasFormSubmissionFlow(comps, actions) ==
    /\ \E k \in 1..Len(comps) :
          Has(comps[k].name, {"form"}) \/ comps[k].semanticCategory = "FORM"
    /\ \E k \in 1..Len(actions) :
          actions[k].type = "submit" \/ Has(actions[k].description, {"submit", "save"})

\* hasCRUDFlow
hasCRUDFlow(comps, actions) ==
    /\ \E k \in 1..Len(comps) : Has(comps[k].name, {"create", "edit", "delete", "list"})
    /\ \E k \in 1..Len(actions) :
          Has(actions[k].description, {"create", "add", "edit", "update", "delete", "remove"})

\* hasCheckoutFlow
hasCheckoutFlow(comps, actions) ==
    /\ \E k \in 1..Len(comps) : Has(comps[k].name, {"cart", "checkout", "payment"})
    /\ \E k \in 1..Len(actions) :
          Has(actions[k].description, {"add to cart", "checkout", "payment", "purchase"})

\* the steps of each workflow, in order
StepNames(workflow) ==
    CASE workflow = "Authentication" -> << "Enter credentials", "Submit credentials" >>
      [] workflow = "Search and Filter" ->
            << "Enter search term", "Apply filters", "View results" >>
      [] workflow = "Form Submission" ->
            << "Fill in the form", "Validate information", "Submit the form" >>
      [] workflow = "Manage Items" ->
            << "View items", "Create new item", "Edit item", "Delete item" >>
      [] workflow = "Shopping Checkout" ->
            << "Add items to cart", "Review cart", "Proceed to checkout",
               "Enter shipping information", "Enter payment information",
               "Complete purchase" >>

\* the filter of each step: actions.filter(a => ...)
StepFilter(step, a) ==
    CASE step = "Enter credentials" ->
            a.type = "input" /\ Has(a.trigger, {"username", "email", "password"})
      [] step = "Submit credentials" ->
            a.type = "submit" \/ (a.type = "click" /\ Has(a.trigger, {"login", "signin"}))
      [] step = "Enter search term" -> a.type = "input" /\ Has(a.trigger, {"search"})
      [] step = "Apply filters" -> Has(a.description, {"filter"}) \/ Has(a.trigger, {"filter"})
      [] step = "View results" -> Has(a.outcome, {"results", "found"})
      [] step = "Fill in the form" -> a.type = "input"
      [] step = "Validate information" -> Has(a.description, {"validate", "check"})
      [] step = "Submit the form" ->
            a.type = "submit" \/ (a.type = "click" /\ Has(a.trigger, {"submit", "save"}))
      [] step = "View items" -> Has(a.outcome, {"view", "list", "display"})
      [] step = "Create new item" -> Has(a.description, {"create", "add", "new"})
      [] step = "Edit item" -> Has(a.description, {"edit", "update", "modify"})
      [] step = "Delete item" -> Has(a.description, {"delete", "remove"})
      [] step = "Add items to cart" ->
            Has(a.description, {"add to cart"}) \/ Has(a.outcome, {"added to cart"})
      [] step = "Review cart" -> Has(a.outcome, {"view cart"}) \/ Has(a.trigger, {"cart"})
      [] step = "Proceed to checkout" ->
            Has(a.description, {"checkout"}) \/ Has(a.outcome, {"checkout"})
      [] step = "Enter shipping information" ->
            Has(a.description, {"shipping"}) \/ Has(a.trigger, {"address"})
      [] step = "Enter payment information" ->
            Has(a.description, {"payment"}) \/ Has(a.trigger, {"payment", "credit card"})
      [] step = "Complete purchase" -> Has(a.description, {"complete", "purchase", "order"})

\* the filter of each workflow's components: components.filter(c => ...)
ComponentFilter(workflow, c) ==
    CASE workflow = "Authentication" -> Has(c.name, {"login", "signin", "auth"})
      [] workflow = "Search and Filter" -> Has(c.name, {"search", "filter", "results"})
      [] workflow = "Form Submission" -> c.semanticCategory = "FORM" \/ Has(c.name, {"form"})
      [] workflow = "Manage Items" -> Has(c.name, {"create", "edit", "delete", "list"})
      [] workflow = "Shopping Checkout" ->
            Has(c.name, {"cart", "checkout", "payment", "order"})

\* a workflow whose steps filter the actions of its own components only
WorkflowOfOwnActions(workflow, comps, actions) ==
    LET own == SelectSeq(comps, LAMBDA c : ComponentFilter(workflow, c))
    IN  [name |-> workflow,
         steps |-> [k \in 1..Len(StepNames(workflow)) |->
                       [name |-> StepNames(workflow)[k],
                        actions |-> SelectSeq(AllActions(own),
                                              LAMBDA a : StepFilter(StepNames(workflow)[k], a))]],
         components |-> own]

\* the object the create...Workflow methods return
Workflow(workflow, comps, actions) ==
    [name |-> workflow,
     steps |-> [k \in 1..Len(StepNames(workflow)) |->
                   [name |-> StepNames(workflow)[k],
                    actions |-> SelectSeq(actions,
                                          LAMBDA a : StepFilter(StepNames(workflow)[k], a))]],
     components |-> SelectSeq(comps, LAMBDA c : ComponentFilter(workflow, c))]

createAuthenticationWorkflow(comps, actions) == Workflow("Authentication", comps, actions)

createSearchWorkflow(comps, actions) == Workflow("Search and Filter", comps, actions)

createFormWorkflow(comps, actions) == Workflow("Form Submission", comps, actions)

createCRUDWorkflow(comps, actions) == Workflow("Manage Items", comps, actions)

createCheckoutWorkflow(comps, actions) == Workflow("Shopping Checkout", comps, actions)

\* detectWorkflows
detectWorkflows(comps) ==
    LET allActions == AllActions(comps)
    IN  (IF hasAuthenticationFlow(comps, allActions)
         THEN << createAuthenticationWorkflow(comps, allActions) >> ELSE << >>)
        \o (IF hasSearchFlow(comps, allActions)
            THEN << createSearchWorkflow(comps, allActions) >> ELSE << >>)
        \o (IF hasFormSubmissionFlow(comps, allActions)
            THEN << createFormWorkflow(comps, allActions) >> ELSE << >>)
        \o (IF hasCRUDFlow(comps, allActions)
            THEN << createCRUDWorkflow(comps, allActions) >> ELSE << >>)
        \o (IF hasCheckoutFlow(comps, allActions)
            THEN << createCheckoutWorkflow(comps, allActions) >> ELSE << >>)

(* ------------------------- persisted artifacts ------------------------ *)
\* JSON.stringify(data, null, 2) and JSON.parse: the text of a document
JSONstringify(data) == [json |-> data]

JSONparse(text) == text.json

\* calculateJsonHash
calculateJsonHash(data) == calculateStringMD5(JSONstringify(data))

(* ------------------------------- state -------------------------------- *)
VARIABLES
    files,      \* the project: relative path -> "absent", "unreadable" or a source text
    cache,      \* .userlens_cache/metadata: cache file name -> its content
    output,     \* the output directory: artifact name -> its text
    pc,         \* where the analyze command is: idle, files, deleted, save, done, failed
    componentFiles,                 \* the scan: absolute paths, in walker order
    i,                              \* index of the next file of the scan
    initialCachedRelativePaths,     \* getAllCachedFilePaths() at the start of the run
    processedRelativeFilePaths,
    components,
    changedOrNewRelativeFilePaths,
    deletedRelativeFilePaths,
    j,                              \* index of the next initially cached path
    changeset,  \* the changeset this run wrote, or NoChangeset
    results,    \* the patterns and workflows this run computed
    log,        \* per scanned path, what the run printed about it
    cache0,     \* the cache directory as it was when the run started
    output0,    \* the output directory as it was when the run started
    mkdirOk,    \* whether this run could create the cache directory
    error,      \* what the command's outer catch printed: none, mkdir, remove, artifact
    prev,       \* the outputs of the run before, when it completed and nothing changed since
    runs,       \* analyze runs started so far
    faults,     \* I/O faults injected so far
    docs,       \* the documentation directory and what the generate command did last
    pluginManager,  \* the PluginManager of the process: its registries and loadedPluginIds
    call,           \* the last call made on the PluginManager and what it returned
    pluginHistory,  \* discoveries so far; the IDs unloaded and not loaded again since
    loopPos,    \* the per-file loop seen operation by operation: where it is
    opsInFlight,\* the asynchronous operations started and not yet settled
    arg,        \* the argument given to a function of the analysis under study
    res         \* what the function returned, or what the loop recorded per file

analyzeVars == << files, cache, output, pc, componentFiles, i, initialCachedRelativePaths,
           processedRelativeFilePaths, components, changedOrNewRelativeFilePaths,
           deletedRelativeFilePaths, j, changeset, results, log, cache0, output0,
           mkdirOk, error, prev, runs, faults, docs, pluginManager, call, pluginHistory >>

pluginVars == << pluginManager, call, pluginHistory >>

auxVars == << loopPos, opsInFlight, arg, res >>

vars == << analyzeVars, auxVars >>

NoChangeset == [written |-> FALSE]

NoResults == [computed |-> FALSE]

NoPrev == [done |-> FALSE]

NoLog == [x \in {} |-> TRUE]

\* no documentation directory, and the generate command never ran
NoDocs ==
    [generates |-> 0, last |-> "none", structure |-> [generated |-> FALSE],
     features |-> EmptyDir]

\* new PluginManager(coreApi, globalConfig), before any call
PluginsIdle ==
    /\ pluginManager = [analyzers |-> << >>, generators |-> << >>, nlpPlugins |-> << >>,
                        patternMatcherPlugins |-> << >>, loadedPluginIds |-> {}]
    /\ call = [op |-> "none"]
    /\ pluginHistory = [discoveries |-> 0, unloaded |-> {}]

\* the metadata the analyze command caches for a source text of a file
CachedMetadata(rel, content) ==
    [parseComponent(pathResolve(projectRoot, rel), content) EXCEPT !.filePath = rel]

\* the cache files a project can hold for one path before a run: none; an entry
\* of this version; an entry of an older version, whose filePath is absolute; a
\* file that does not parse; and entries that lack the hash, the metadata or
\* the metadata's filePath
InitialEntries(rel) ==
    LET meta == CachedMetadata(rel, "form")
        hash == calculateStringMD5("form")
    IN  { CacheEntry(hash, meta),
          CacheEntry(hash, parseComponent(pathResolve(projectRoot, rel), "form")),
          Garbage,
          [componentMetadata |-> meta],
          [sourceFileHash |-> hash],
          CacheEntry(hash, [name |-> meta.name, userActions |-> meta.userActions,
                            semanticCategory |-> meta.semanticCategory]) }

InitialCaches ==
    { dir \in UNION { [ {getCacheFilePath(f) : f \in S} -> UNION {InitialEntries(f) : f \in Files} ]
                      : S \in SUBSET Files } :
        \A f \in Files : getCacheFilePath(f) \in DOMAIN dir
                            => dir[getCacheFilePath(f)] \in InitialEntries(f) }

\* the variables of the studies below while the command itself is looked at
AuxIdle ==
    /\ loopPos = [k |-> 0, op |-> "none", waiting |-> FALSE]
    /\ opsInFlight = {}
    /\ arg = << >>
    /\ res = << >>

RunLocalsReset ==
    /\ componentFiles' = << >>
    /\ i' = 1
    /\ initialCachedRelativePaths' = << >>
    /\ processedRelativeFilePaths' = << >>
    /\ components' = << >>
    /\ changedOrNewRelativeFilePaths' = << >>
    /\ deletedRelativeFilePaths' = << >>
    /\ j' = 1
    /\ changeset' = NoChangeset
    /\ results' = NoResults
    /\ log' = NoLog

Init ==
    /\ files \in [Files -> FileStates]
    /\ cache \in InitialCaches
    /\ output = EmptyDir
    /\ pc = "idle"
    /\ componentFiles = << >>
    /\ i = 1
    /\ initialCachedRelativePaths = << >>
    /\ processedRelativeFilePaths = << >>
    /\ components = << >>
    /\ changedOrNewRelativeFilePaths = << >>
    /\ deletedRelativeFilePaths = << >>
    /\ j = 1
    /\ changeset = NoChangeset
    /\ results = NoResults
    /\ log = NoLog
    /\ cache0 = cache
    /\ output0 = output
    /\ mkdirOk = TRUE
    /\ error = "none"
    /\ prev = NoPrev
    /\ runs = 0
    /\ faults = 0
    /\ docs = NoDocs
    /\ PluginsIdle
    /\ AuxIdle

Stopped == pc \in {"idle", "done", "failed", "killed"}

(* ----------------------------- environment ---------------------------- *)
\* between two runs one file is added, removed, rewritten or made unreadable
EditFile(f, s) ==
    /\ pc \in {"done", "failed"}
    /\ runs < MaxRuns
    /\ files[f] # s
    /\ files' = [files EXCEPT ![f] = s]
    /\ pc' = "idle"
    /\ RunLocalsReset
    /\ cache0' = cache
    /\ output0' = output
    /\ mkdirOk' = TRUE
    /\ error' = "none"
    /\ prev' = NoPrev
    /\ UNCHANGED << cache, output, runs, faults >>
    /\ UNCHANGED << docs, pluginVars, auxVars >>

(* --------------------------- analyze command -------------------------- *)
\* findComponentFiles: the files that exist, as absolute paths, in walker order
RECURSIVE ScanFrom(_, _)
ScanFrom(fs, n) ==
    IF n > Len(FileOrder) THEN << >>
    ELSE (IF fs[FileOrder[n]] # "absent"
          THEN << pathResolve(projectRoot, FileOrder[n]) >>
          ELSE << >>) \o ScanFrom(fs, n + 1)

findComponentFiles(fs) == ScanFrom(fs, 1)

\* the start of the command up to the per-file loop: CacheManager.create (which
\* canMkdir lets succeed or not), the scan and the list of the initially cached
\* paths
StartRun(canMkdir) ==
    /\ Stopped
    /\ runs < MaxRuns
    /\ canMkdir \/ faults < MaxFaults
    /\ runs' = runs + 1
    /\ faults' = IF canMkdir THEN faults ELSE faults + 1
    /\ mkdirOk' = canMkdir
    /\ output0' = output
    /\ prev' = IF pc = "done"
               THEN [done |-> TRUE, components |-> components,
                     patterns |-> results.patterns, workflows |-> results.workflows]
               ELSE NoPrev
    /\ cache0' = cache
    /\ processedRelativeFilePaths' = << >>
    /\ components' = << >>
    /\ changedOrNewRelativeFilePaths' = << >>
    /\ deletedRelativeFilePaths' = << >>
    /\ i' = 1
    /\ j' = 1
    /\ changeset' = NoChangeset
    /\ results' = NoResults
    /\ log' = NoLog
    /\ IF CacheManagerCreate(canMkdir) = "throw"
       THEN /\ pc' = "failed"
            /\ error' = "mkdir"
            /\ componentFiles' = << >>
            /\ initialCachedRelativePaths' = << >>
       ELSE /\ error' = "none"
            /\ componentFiles' = findComponentFiles(files)
            /\ initialCachedRelativePaths' = getAllCachedFilePaths(cache)
            /\ pc' = IF findComponentFiles(files) # << >> THEN "files"
                     ELSE IF getAllCachedFilePaths(cache) # << >> THEN "deleted"
                     ELSE "save"
    /\ UNCHANGED << files, cache, output >>
    /\ UNCHANGED << docs, pluginVars, auxVars >>

\* a test of the hit branch that does not compare the hashes
IsCacheHitAnyHash(cachedData, currentContentHash) == ~IsNull(cachedData)

\* the test of the hit branch: an entry was returned and its hash is the hash
\* of the file's current content
IsCacheHit(cachedData, currentContentHash) ==
    ~IsNull(cachedData) /\ cachedData.sourceFileHash = currentContentHash

\* a hit branch that pushes the stored metadata as it is
NormalizeCachedFilePathSkip(componentMeta) == componentMeta

\* the hit branch's normalisation of a stored absolute filePath
NormalizeCachedFilePath(componentMeta) ==
    IF pathIsAbsolute(componentMeta.filePath)
    THEN [componentMeta EXCEPT !.filePath = pathRelative(projectRoot, componentMeta.filePath)]
    ELSE componentMeta

\* metadataToCache: the parsed metadata with the relative path as filePath
MetadataToCache(parsedMetadata, relativeFilePath) ==
    [parsedMetadata EXCEPT !.filePath = relativeFilePath]

\* One iteration of the per-file loop for the file at absoluteFilePath, whose
\* path relative to the project root is relativeFilePath, as the values it leaves: the cache
\* directory, what it pushes to components and to changedOrNewRelativeFilePaths,
\* and what it prints. unlinkOk: whether the unlink of an invalid entry works;
\* io: how the write of the cache entry ends. An exception thrown anywhere in
\* the try block ends the iteration in the catch clause.
ProcessOne(dir, relativeFilePath, absoluteFilePath, content, unlinkOk, io) ==
    LET nothing == [cache |-> dir, components |-> << >>, changedOrNew |-> << >>,
                    branch |-> "none", extracted |-> FALSE, error |-> TRUE]
    IN  IF content = "unreadable"
        THEN nothing   \* calculateFileContentHash throws
        ELSE
          LET currentContentHash == calculateStringMD5(content)
              cachedData == getCachedComponentResult(dir, relativeFilePath)
              dir1 == getCachedComponentEffect(dir, relativeFilePath, unlinkOk)
          IN  IF IsCacheHit(cachedData, currentContentHash)
              THEN IF "filePath" \notin DOMAIN cachedData.componentMetadata
                   THEN [nothing EXCEPT !.cache = dir1, !.branch = "hit"]  \* path.isAbsolute(undefined) throws
                   ELSE [cache |-> dir1,
                         components |-> << NormalizeCachedFilePath(cachedData.componentMetadata) >>,
                         changedOrNew |-> << >>,
                         branch |-> "hit", extracted |-> FALSE, error |-> FALSE]
              ELSE
                LET parsedMetadata == parseComponent(absoluteFilePath, content)
                    branch == IF IsNull(cachedData) THEN "miss" ELSE "stale"
                IN  IF Threw(parsedMetadata)
                    THEN [nothing EXCEPT !.cache = dir1, !.branch = branch, !.extracted = TRUE]
                    ELSE
                      LET metadataToCache == MetadataToCache(parsedMetadata, relativeFilePath)
                          dir2 == cacheComponent(dir1, relativeFilePath, currentContentHash,
                                                 metadataToCache, io)
                      IN  IF io # "ok"
                          THEN [nothing EXCEPT !.cache = dir2, !.branch = branch,
                                               !.extracted = TRUE]
                          ELSE [cache |-> dir2,
                                components |-> << metadataToCache >>,
                                changedOrNew |-> << relativeFilePath >>,
                                branch |-> branch, extracted |-> TRUE, error |-> FALSE]

\* whether the iteration reaches cacheComponent
WritesCache(dir, relativeFilePath, absoluteFilePath, content) ==
    /\ content # "unreadable"
    /\ ~IsCacheHit(getCachedComponentResult(dir, relativeFilePath),
                   calculateStringMD5(content))
    /\ ~Threw(parseComponent(absoluteFilePath, content))

\* the program point after the per-file loop
AfterFiles == IF initialCachedRelativePaths # << >> THEN "deleted" ELSE "save"

\* one iteration of `for (const absoluteFilePath of componentFiles)`.
\* unlinkOk: whether the unlink of an invalid entry works; io: how the write of
\* the cache entry ends (each only where the iteration gets that far)
ProcessFile ==
    /\ pc = "files"
    /\ \E absoluteFilePath \in {componentFiles[i]} :
       \E relativeFilePath \in {pathRelative(projectRoot, absoluteFilePath)} :
       \E unlinkOk \in BOOLEAN, io \in {"ok", "fail", "truncated"} :
         LET content == files[relativeFilePath]
             attemptsUnlink == content # "unreadable" /\ LookupUnlinks(cache, relativeFilePath)
             attemptsWrite == WritesCache(cache, relativeFilePath, absoluteFilePath, content)
             nFaults == (IF unlinkOk THEN 0 ELSE 1) + (IF io = "ok" THEN 0 ELSE 1)
         IN  /\ unlinkOk \/ attemptsUnlink
             /\ io = "ok" \/ attemptsWrite
             /\ faults + nFaults <= MaxFaults
             /\ faults' = faults + nFaults
             /\ \E r \in {ProcessOne(cache, relativeFilePath, absoluteFilePath, content,
                                     unlinkOk, io)} :
                 /\ processedRelativeFilePaths' =
                        Append(processedRelativeFilePaths, relativeFilePath)
                 /\ cache' = r.cache
                 /\ components' = components \o r.components
                 /\ changedOrNewRelativeFilePaths' =
                        changedOrNewRelativeFilePaths \o r.changedOrNew
                 /\ log' = WriteFile(log, relativeFilePath,
                                     [branch |-> r.branch, extracted |-> r.extracted,
                                      error |-> r.error])
    /\ i' = i + 1
    /\ pc' = IF i = Len(componentFiles) THEN AfterFiles ELSE "files"
    /\ UNCHANGED << files, output, componentFiles, initialCachedRelativePaths,
                    deletedRelativeFilePaths, j, changeset, results, cache0, output0,
                    mkdirOk, error, prev, runs >>
    /\ UNCHANGED << docs, pluginVars, auxVars >>

\* one iteration of `for (const cachedPath of initialCachedRelativePaths)`; a
\* failed removal is thrown to the command's outer catch, which exits
HandleDeleted ==
    /\ pc = "deleted"
    /\ \E unlinkOk \in BOOLEAN :
       LET cachedPath == initialCachedRelativePaths[j]
           isDeleted == ~Includes(processedRelativeFilePaths, cachedPath)
           throws == isDeleted /\ removeCachedComponentThrows(cache, cachedPath, unlinkOk)
       IN  /\ unlinkOk \/ (throws /\ faults < MaxFaults)
           /\ faults' = IF unlinkOk THEN faults ELSE faults + 1
           /\ cache' = IF isDeleted THEN removeCachedComponent(cache, cachedPath, unlinkOk)
                       ELSE cache
           /\ deletedRelativeFilePaths' =
                 IF isDeleted /\ ~throws THEN Append(deletedRelativeFilePaths, cachedPath)
                 ELSE deletedRelativeFilePaths
           /\ pc' = IF throws THEN "failed"
                    ELSE IF j = Len(initialCachedRelativePaths) THEN "save" ELSE "deleted"
           /\ error' = IF throws THEN "remove" ELSE error
    /\ j' = j + 1
    /\ UNCHANGED << files, output, componentFiles, i, initialCachedRelativePaths,
                    processedRelativeFilePaths, components, changedOrNewRelativeFilePaths,
                    changeset, results, log, cache0, output0, mkdirOk, prev, runs >>
    /\ UNCHANGED << docs, pluginVars, auxVars >>

\* a classification that never reports a path as changed
IsChangedPathNever(p, initialPaths) == FALSE

\* the classification of the changed-or-new paths: changed when the path was
\* among the initially cached paths, new otherwise
IsChangedPath(p, initialPaths) == Includes(initialPaths, p)

ChangedComponentsPaths(changedOrNew, initialPaths) ==
    LET Changed(p) == IsChangedPath(p, initialPaths) IN SelectSeq(changedOrNew, Changed)

\* a classification that lists every changed-or-new path as new
NewComponentsPathsAll(changedOrNew, initialPaths) == changedOrNew

NewComponentsPaths(changedOrNew, initialPaths) ==
    LET New(p) == ~IsChangedPath(p, initialPaths) IN SelectSeq(changedOrNew, New)

\* a "changed" test that always asks for the rewrite
ArtifactChangedAlways(dir, name, data) == TRUE

\* the "changed" test of one artifact: nothing stored, or the fingerprint of the
\* stored document differs from the fingerprint of the new one
ArtifactChanged(dir, name, data) ==
    \/ name \notin DOMAIN dir
    \/ calculateJsonHash(JSONparse(dir[name])) # calculateJsonHash(data)

\* the artifact is written only when it changed
SaveArtifact(dir, name, data) ==
    IF ArtifactChanged(dir, name, data) THEN WriteFile(dir, name, JSONstringify(data)) ELSE dir

\* the artifact names in the order the command saves them; the changeset last
ArtifactOrder == << "components.json", "patterns.json", "workflows.json", "changeset.json" >>

\* The rest of the command: classification, the three artifacts, the
\* changeset. failAt = 0: no I/O error; failAt = n: reading or writing the n-th
\* file of ArtifactOrder fails, which the outer catch turns into exit(1) with
\* the files before it already saved.
SaveResults ==
    /\ pc = "save"
    /\ \E pats \in {detectPatterns(components)}, flows \in {detectWorkflows(components)},
          failAt \in 0..Len(ArtifactOrder) :
         LET reached(n) == failAt = 0 \/ n < failAt
             out1 == IF reached(1) THEN SaveArtifact(output, "components.json", components)
                     ELSE output
             out2 == IF reached(2) THEN SaveArtifact(out1, "patterns.json", pats) ELSE out1
             out3 == IF reached(3) THEN SaveArtifact(out2, "workflows.json", flows) ELSE out2
             cs == [written |-> TRUE,
                    newComponents |->
                        NewComponentsPaths(changedOrNewRelativeFilePaths,
                                           initialCachedRelativePaths),
                    changedComponents |->
                        ChangedComponentsPaths(changedOrNewRelativeFilePaths,
                                               initialCachedRelativePaths),
                    deletedComponents |-> deletedRelativeFilePaths,
                    componentsJsonChanged |->
                        ArtifactChanged(output, "components.json", components),
                    patternsJsonChanged |-> ArtifactChanged(out1, "patterns.json", pats),
                    workflowsJsonChanged |-> ArtifactChanged(out2, "workflows.json", flows)]
         IN  /\ failAt = 0 \/ faults < MaxFaults
             /\ faults' = IF failAt = 0 THEN faults ELSE faults + 1
             /\ results' = IF failAt = 1 THEN NoResults
                           ELSE [computed |-> TRUE, patterns |-> pats, workflows |-> flows]
             /\ IF failAt = 0
                THEN /\ output' = WriteFile(out3, "changeset.json", JSONstringify(cs))
                     /\ changeset' = cs
                     /\ pc' = "done"
                     /\ error' = error
                ELSE /\ output' = out3
                     /\ changeset' = NoChangeset
                     /\ pc' = "failed"
                     /\ error' = "artifact"
    /\ UNCHANGED << files, cache, componentFiles, i, initialCachedRelativePaths,
                    processedRelativeFilePaths, components, changedOrNewRelativeFilePaths,
                    deletedRelativeFilePaths, j, log, cache0, output0, mkdirOk, prev,
                    runs >>
    /\ UNCHANGED << docs, pluginVars, auxVars >>

\* The process is terminated from outside (SIGKILL, power loss) during the
\* iteration of the per-file loop for componentFiles[i]. What the iteration has
\* done to the cache by then is one of: nothing; the lookup, which may have
\* unlinked an invalid entry; the lookup and a part of fs.writeFile, which
\* opens the cache file truncated before it writes the text; the lookup and
\* the whole write. The memory of the process is lost.
Terminate ==
    /\ pc = "files"
    /\ faults < MaxFaults
    /\ faults' = faults + 1
    /\ \E absoluteFilePath \in {componentFiles[i]} :
       \E relativeFilePath \in {pathRelative(projectRoot, absoluteFilePath)} :
         LET content == files[relativeFilePath]
             dir1 == getCachedComponentEffect(cache, relativeFilePath, TRUE)
             meta == MetadataToCache(parseComponent(absoluteFilePath, content),
                                     relativeFilePath)
             hash == calculateStringMD5(content)
         IN  cache' \in
                {cache}
                \cup (IF content # "unreadable" THEN {dir1} ELSE {})
                \cup (IF WritesCache(cache, relativeFilePath, absoluteFilePath, content)
                      THEN { cacheComponent(dir1, relativeFilePath, hash, meta, "truncated"),
                             cacheComponent(dir1, relativeFilePath, hash, meta, "ok") }
                      ELSE {})
    /\ pc' = "killed"
    /\ RunLocalsReset
    /\ UNCHANGED << files, output, cache0, output0, mkdirOk, error, prev, runs >>
    /\ UNCHANGED << docs, pluginVars, auxVars >>

Next ==
    \/ \E f \in Files, s \in FileStates : EditFile(f, s)
    \/ \E canMkdir \in BOOLEAN : StartRun(canMkdir)
    \/ ProcessFile
    \/ HandleDeleted
    \/ SaveResults

Spec == Init /\ [][Next]_vars

\* the analyze command in an environment that can also terminate it
NextTerminate == Next \/ Terminate

SpecTerminate == Init /\ [][NextTerminate]_vars

\* the same on a project that was never analyzed: no cache file, no artifact
InitCold == Init /\ cache = EmptyDir

SpecColdStart == InitCold /\ [][NextTerminate]_vars

(* --------------------------- generate command ------------------------- *)
\* generate runs of one history
MaxGenerates == 2

\* s.toLowerCase() followed by replace(/[^a-z0-9]/g, '-'), for the names and
\* categories of the components of the project
DocFileNameStem(s) ==
    CASE s = "ContactForm" -> "contactform"
      [] s = "Navigation" -> "navigation"
      [] s = "FORM" -> "form"
      [] s = "NAVIGATION" -> "navigation"
      [] OTHER -> "-"

\* path.basename(p, path.extname(p)) of a source path
BasenameNoExt(p) ==
    CASE p[Len(p)] = "ContactForm.jsx" -> "ContactForm"
      [] p[Len(p)] = "Navigation.jsx" -> "Navigation"
      [] OTHER -> ""

\* what a document shows of a component: everything but its path
Rendered(component) ==
    [name |-> component.name, userActions |-> component.userActions,
     semanticCategory |-> component.semanticCategory]

\* MarkdownGenerator.generateComponentDoc into features/<category>
generateComponentDoc(features, component) ==
    WriteFile(features,
              << DocFileNameStem(component.semanticCategory),
                 DocFileNameStem(component.name) >>,
              Rendered(component))

\* the components generateFeatures writes a document for; the components of
\* this project have no props and no "main" or "primary" in their names
Significant(component) == Len(component.userActions) > 0

\* generateFeatures: a document per significant component, in list order
RECURSIVE generateFeatures(_, _, _)
generateFeatures(features, allComponents, n) ==
    IF n > Len(allComponents) THEN features
    ELSE generateFeatures(IF Significant(allComponents[n])
                          THEN generateComponentDoc(features, allComponents[n])
                          ELSE features,
                          allComponents, n + 1)

\* the overview, the category overviews, the workflow pages and the index:
\* all rendered from the whole list of components
generateStructure(allComponents) ==
    [generated |-> TRUE,
     components |-> [k \in 1..Len(allComponents) |-> Rendered(allComponents[k])]]

\* MarkdownGenerator.generateDocumentation; nothing already there is removed
generateDocumentation(d, allComponents) ==
    [d EXCEPT !.structure = generateStructure(allComponents),
              !.features = generateFeatures(d.features, allComponents, 1)]

\* allComponents.find(c => c.filePath === componentPath), as the list of the
\* component found (empty when there is none)
FindComponent(allComponents, componentPath) ==
    LET Found(c) == c.filePath = componentPath
        found == SelectSeq(allComponents, Found)
    IN  IF found = << >> THEN << >> ELSE << found[1] >>

\* step 3 of the incremental generation: a document for every new or changed
\* path whose component is in components.json
RECURSIVE RegenerateDocs(_, _, _, _)
RegenerateDocs(features, allComponents, newOrChangedPaths, n) ==
    IF n > Len(newOrChangedPaths) THEN features
    ELSE LET found == FindComponent(allComponents, newOrChangedPaths[n])
         IN  RegenerateDocs(IF found # << >>
                            THEN generateComponentDoc(features, found[1])
                            ELSE features,
                            allComponents, newOrChangedPaths, n + 1)

\* the category directories under features, in the order readdir lists them
CategoryDirs == << "form", "navigation" >>

\* step 4 for one deleted path: the first features/<category>/<stem>.md that
\* exists is unlinked, where stem comes from the name of the source file
DeleteDoc(features, deletedComponentPath) ==
    LET docFileName == DocFileNameStem(BasenameNoExt(deletedComponentPath))
        Holds(category) == << category, docFileName >> \in DOMAIN features
        dirs == SelectSeq(CategoryDirs, Holds)
    IN  IF dirs = << >> THEN features ELSE Unlink(features, << dirs[1], docFileName >>)

RECURSIVE DeleteDocs(_, _, _)
DeleteDocs(features, deletedComponents, n) ==
    IF n > Len(deletedComponents) THEN features
    ELSE DeleteDocs(DeleteDoc(features, deletedComponents[n]), deletedComponents, n + 1)

\* the early exit of the incremental path
noRelevantChanges(cs) ==
    /\ Len(cs.newComponents) = 0
    /\ Len(cs.changedComponents) = 0
    /\ Len(cs.deletedComponents) = 0
    /\ ~cs.componentsJsonChanged
    /\ ~cs.patternsJsonChanged
    /\ ~cs.workflowsJsonChanged

\* The generate command with the built-in markdown generator, on the directory
\* the analyze command writes. No changeset.json: full generation.
\* No components.json: exit(1). A changeset without relevant changes: nothing
\* is generated. Otherwise the documents of the new and changed paths are
\* written, those of the deleted paths unlinked, and the structural files
\* regenerated.
Generate ==
    /\ Stopped
    /\ docs.generates < MaxGenerates
    /\ LET performFullGeneration == "changeset.json" \notin DOMAIN output
           counted == [docs EXCEPT !.generates = @ + 1]
       IN  IF "components.json" \notin DOMAIN output
           THEN docs' = [counted EXCEPT !.last = "failed"]
           ELSE LET allComponents == JSONparse(output["components.json"])
                IN  IF performFullGeneration
                    THEN docs' = [generateDocumentation(counted, allComponents)
                                    EXCEPT !.last = "full"]
                    ELSE LET cs == JSONparse(output["changeset.json"])
                         IN  IF noRelevantChanges(cs)
                             THEN docs' = [counted EXCEPT !.last = "skipped"]
                             ELSE docs' =
                                    [counted EXCEPT
                                       !.last = "incremental",
                                       !.structure = generateStructure(allComponents),
                                       !.features =
                                          DeleteDocs(
                                            RegenerateDocs(@, allComponents,
                                                           cs.newComponents
                                                             \o cs.changedComponents, 1),
                                            cs.deletedComponents, 1)]
    /\ UNCHANGED << files, cache, output, pc, componentFiles, i,
                    initialCachedRelativePaths, processedRelativeFilePaths, components,
                    changedOrNewRelativeFilePaths, deletedRelativeFilePaths, j, changeset,
                    results, log, cache0, output0, mkdirOk, error, prev, runs, faults >>
    /\ UNCHANGED << pluginVars, auxVars >>

\* source edits, analyze runs and generate runs in any order, on a project
\* that was never analyzed
NextGenerate == Next \/ Generate

SpecGenerate == InitCold /\ [][NextGenerate]_vars

(* ------------------- the per-file loop, operation by operation -------- *)
\* the most files in a scan of this study
MaxLoopFiles == 3

\* the command with no project, no cache and no run: the state in which the
\* studies below leave it
AnalyzeIdle ==
    /\ files = [f \in Files |-> "absent"]
    /\ cache = EmptyDir
    /\ output = EmptyDir
    /\ pc = "idle"
    /\ componentFiles = << >>
    /\ i = 1
    /\ initialCachedRelativePaths = << >>
    /\ processedRelativeFilePaths = << >>
    /\ components = << >>
    /\ changedOrNewRelativeFilePaths = << >>
    /\ deletedRelativeFilePaths = << >>
    /\ j = 1
    /\ changeset = NoChangeset
    /\ results = NoResults
    /\ log = NoLog
    /\ cache0 = EmptyDir
    /\ output0 = EmptyDir
    /\ mkdirOk = TRUE
    /\ error = "none"
    /\ prev = NoPrev
    /\ runs = 0
    /\ faults = 0
    /\ docs = NoDocs
    /\ PluginsIdle

\* the asynchronous operations of one iteration, in program order:
\* calculateFileContentHash, getCachedComponent, parseComponent, cacheComponent
LoopOps == << "hash", "read", "extract", "write" >>

\* how each operation can settle; getCachedComponent never rejects
OpOutcomes(op) ==
    CASE op = "hash" -> {"ok", "throw"}
      [] op = "read" -> {"hit", "miss"}
      [] op = "extract" -> {"ok", "throw"}
      [] OTHER -> {"ok", "throw"}

\* a loop that does not wait for the cache write
AwaitsAllButWrite(op) == op # "write"

\* whether the loop body awaits the promise of the operation: each of the four
\* calls is written `await ...`
Awaits(op) == TRUE

\* where the loop is after the operation settled with the outcome, and what it
\* recorded for the file: a rejection goes to the catch clause and on to the
\* next file, a hit skips extraction and write
AfterOp(pos, op, outcome) ==
    LET next == [k |-> pos.k + 1, op |-> "hash", waiting |-> FALSE]
        on(o) == [k |-> pos.k, op |-> o, waiting |-> FALSE]
    IN  CASE op = "hash" /\ outcome = "ok" -> [pos |-> on("read"), rec |-> << >>]
          [] op = "hash" -> [pos |-> next, rec |-> << "hash failed" >>]
          [] op = "read" /\ outcome = "hit" -> [pos |-> next, rec |-> << "hit" >>]
          [] op = "read" -> [pos |-> on("extract"), rec |-> << >>]
          [] op = "extract" /\ outcome = "ok" -> [pos |-> on("write"), rec |-> << >>]
          [] op = "extract" -> [pos |-> next, rec |-> << "extract failed" >>]
          [] op = "write" /\ outcome = "ok" -> [pos |-> next, rec |-> << "cached" >>]
          [] OTHER -> [pos |-> next, rec |-> << "write failed" >>]

LoopInit ==
    /\ AnalyzeIdle
    /\ arg \in 1..MaxLoopFiles        \* componentFiles.length
    /\ res = << >>
    /\ loopPos = [k |-> 1, op |-> "hash", waiting |-> FALSE]
    /\ opsInFlight = {}

\* the loop body calls the next operation of the current file
IssueOp ==
    /\ loopPos.k <= arg
    /\ ~loopPos.waiting
    /\ opsInFlight' = opsInFlight \cup {<< loopPos.k, loopPos.op >>}
    /\ IF Awaits(loopPos.op)
       THEN /\ loopPos' = [loopPos EXCEPT !.waiting = TRUE]
            /\ res' = res
       ELSE /\ loopPos' = AfterOp(loopPos, loopPos.op, "ok").pos
            /\ res' = res \o AfterOp(loopPos, loopPos.op, "ok").rec
    /\ UNCHANGED << analyzeVars, arg >>

\* an operation in flight settles; the loop goes on when it was waiting for it
SettleOp(o, outcome) ==
    /\ o \in opsInFlight
    /\ outcome \in OpOutcomes(o[2])
    /\ opsInFlight' = opsInFlight \ {o}
    /\ IF loopPos.waiting /\ o = << loopPos.k, loopPos.op >>
       THEN /\ loopPos' = AfterOp(loopPos, o[2], outcome).pos
            /\ res' = res \o AfterOp(loopPos, o[2], outcome).rec
       ELSE UNCHANGED << loopPos, res >>
    /\ UNCHANGED << analyzeVars, arg >>

NextLoop ==
    \/ IssueOp
    \/ \E o \in opsInFlight, outcome \in {"ok", "throw", "hit", "miss"} : SettleOp(o, outcome)

SpecLoop == LoopInit /\ [][NextLoop]_vars

(* ------------------------ PatternMatcher alone ------------------------ *)
\* the longest component list given to detectPatterns
MaxComponents == 3

\* the functions under study are not running
LoopIdle == loopPos = [k |-> 0, op |-> "none", waiting |-> FALSE] /\ opsInFlight = {}

NotCalled == [called |-> FALSE]

Returned(value) == [called |-> TRUE, value |-> value]

\* an action whose description contains an action phrase of the search and of
\* the form-submission pattern
PhrasedAction ==
    [type |-> "input", trigger |-> "query", phrases |-> {"enter search term", "fill form"}]

\* the components the study draws from: four names (one matching no pattern,
\* two matching two patterns each), with no action or with two phrased ones
SampleComponents ==
    { [name |-> n, filePath |-> << "src", n >>, userActions |-> a, semanticCategory |-> "DISPLAY"] :
        n \in {"SearchBar", "SettingsForm", "NotificationList", "Card"},
        a \in { << >>, << PhrasedAction, PhrasedAction >> } }

ComponentLists == UNION { [1..n -> SampleComponents] : n \in 0..MaxComponents }

PatternsInit ==
    /\ AnalyzeIdle
    /\ LoopIdle
    /\ arg \in ComponentLists
    /\ res = NotCalled

\* patternMatcher.detectPatterns(components)
DetectPatternsCall ==
    /\ res = NotCalled
    /\ res' = Returned(detectPatterns(arg))
    /\ UNCHANGED << analyzeVars, loopPos, opsInFlight, arg >>

SpecPatterns == PatternsInit /\ [][DetectPatternsCall]_vars

(* ------------------ NLPProcessor.categorizeComponent ------------------ *)
\* the most props of a component in this study
MaxProps == 2

\* ComponentCategory
ComponentCategories == {"FORM", "NAVIGATION", "DISPLAY", "INTERACTION", "LAYOUT"}

\* s.toLowerCase().includes(keyword), for the component and prop names of the
\* studies and the keywords the categorization and the description look for:
\* the keywords that are substrings of the lower-cased string
LowerIncludes(s) ==
    CASE s = "LoginForm" -> {"login", "form"}
      [] s = "NavMenu" -> {"nav", "menu"}
      [] s = "LinkButton" -> {"link", "button", "to"}
      [] s = "InputList" -> {"input", "list"}
      [] s = "ActionCard" -> {"action", "card"}
      [] s = "UserTable" -> {"table"}
      [] s = "Sidebar" -> {}
      [] s = "UserList" -> {"list"}
      [] s = "useHelper" -> {}
      [] s = "showRegisterLink" -> {"register", "link"}
      [] s = "onSubmit" -> {"onsubmit"}
      [] s = "formId" -> {"form"}
      [] s = "href" -> {"href"}
      [] s = "history" -> {"to"}
      [] s = "onClick" -> {"onclick", "click"}
      [] s = "onLogin" -> {"login"}
      [] s = "redirectUrl" -> {}
      [] s = "title" -> {}
      [] OTHER -> {}

\* a rule order that tests the display keywords before the others
categorizeComponentDisplayFirst(componentName, props) ==
    LET name == LowerIncludes(componentName)
    IN  IF name \cap {"view", "display", "show", "card", "list", "table"} # {} THEN "DISPLAY"
        ELSE IF name \cap {"form", "input", "login", "register"} # {} THEN "FORM"
        ELSE IF name \cap {"nav", "menu", "link", "route"} # {} THEN "NAVIGATION"
        ELSE IF name \cap {"button", "click", "action"} # {} THEN "INTERACTION"
        ELSE "LAYOUT"

\* categorizeComponent(componentName, props, additionalContext); the third
\* argument is not read
categorizeComponent(componentName, props) ==
    LET name == LowerIncludes(componentName)
        PropHas(keywords) == \E k \in 1..Len(props) : LowerIncludes(props[k].name) \cap keywords # {}
    IN  IF \/ name \cap {"form", "input", "login", "register"} # {}
           \/ PropHas({"onsubmit", "form"})
        THEN "FORM"
        ELSE IF \/ name \cap {"nav", "menu", "link", "route"} # {}
                \/ PropHas({"href", "to", "path"})
        THEN "NAVIGATION"
        ELSE IF \/ name \cap {"button", "click", "action"} # {}
                \/ PropHas({"onclick", "onpress"})
        THEN "INTERACTION"
        ELSE IF name \cap {"view", "display", "show", "card", "list", "table"} # {}
        THEN "DISPLAY"
        ELSE "LAYOUT"

SampleNames ==
    {"LoginForm", "NavMenu", "LinkButton", "InputList", "ActionCard", "UserTable", "Sidebar"}

SamplePropNames == {"onSubmit", "formId", "href", "history", "onClick", "title"}

\* PropDefinition[] of up to MaxProps props
PropLists ==
    UNION { [1..n -> { [name |-> q] : q \in SamplePropNames }] : n \in 0..MaxProps }

CategorizeInit ==
    /\ AnalyzeIdle
    /\ LoopIdle
    /\ arg \in [componentName : SampleNames, props : PropLists]
    /\ res = NotCalled

\* nlpProcessor.categorizeComponent(componentName, props, nlpContext)
CategorizeCall ==
    /\ res = NotCalled
    /\ res' = Returned(categorizeComponent(arg.componentName, arg.props))
    /\ UNCHANGED << analyzeVars, loopPos, opsInFlight, arg >>

SpecCategorize == CategorizeInit /\ [][CategorizeCall]_vars

(* ------------------------ ReactAnalyzer.parseComponent ------------------------ *)
\* the most export statements of a file in this study
MaxExports == 2

\* the lists of at most n elements of S without a repetition
DistinctLists(S, n) ==
    { l \in UNION { [1..k -> S] : k \in 0..n } :
        \A a, b \in 1..Len(l) : a # b => l[a] # l[b] }

\* s.split(/[-_]/) on a file name given as its words and separators
RECURSIVE SplitName(_, _)
SplitName(tokens, part) ==
    IF tokens = << >> THEN << part >>
    ELSE IF Head(tokens) \in {"-", "_"}
         THEN << part >> \o SplitName(Tail(tokens), "")
         ELSE SplitName(Tail(tokens), Head(tokens))

\* part.charAt(0).toUpperCase() + part.slice(1)
Capitalize(part) ==
    CASE part = "login" -> "Login"
      [] part = "form" -> "Form"
      [] part = "user" -> "User"
      [] part = "list" -> "List"
      [] OTHER -> part

\* parts.join('')
Join(parts) ==
    LET words == SelectSeq(parts, LAMBDA w : w # "")
    IN  CASE words = << >> -> ""
          [] Len(words) = 1 -> words[1]
          [] words = << "Login", "Form" >> -> "LoginForm"
          [] words = << "User", "List" >> -> "UserList"

\* the name an export statement assigns, "" when it assigns none
ExportedName(statement) ==
    IF statement.kind = "ExportDefaultDeclaration"
    THEN IF statement.declaration = "Identifier" THEN statement.name
         ELSE IF statement.declaration \in {"FunctionDeclaration", "ClassDeclaration"}
                 /\ statement.name # ""
              THEN statement.name
              ELSE ""
    ELSE IF statement.declaration \in {"FunctionDeclaration", "ClassDeclaration"}
            /\ statement.name # ""
         THEN statement.name
         ELSE ""

\* the traversal visits the export statements in source order, each
\* assigning componentName
RECURSIVE VisitExports(_, _)
VisitExports(statements, componentName) ==
    IF statements = << >> THEN componentName
    ELSE VisitExports(Tail(statements),
                      IF ExportedName(Head(statements)) # ""
                      THEN ExportedName(Head(statements))
                      ELSE componentName)

\* extractComponentName(filePath, ast)
extractComponentName(basename, ast) ==
    LET componentName == VisitExports(ast.exports, "")
    IN  IF componentName = ""
        THEN Join([k \in 1..Len(SplitName(basename, "")) |->
                      Capitalize(SplitName(basename, "")[k])])
        ELSE componentName

\* the propType and required of a PropTypes value: only a member expression
\* of two identifiers is read
PropTypeOf(value) ==
    CASE value = "PropTypes.string" -> [type |-> "PropTypes", required |-> FALSE]
      [] value = "PropTypes.func.isRequired" -> [type |-> "any", required |-> FALSE]
      [] OTHER -> [type |-> "any", required |-> FALSE]

\* propTypes[propName] = { type, required }: a known key keeps its place
SetPropType(propTypes, property) ==
    LET entry == [name |-> property.key] @@ PropTypeOf(property.value)
    IN  IF \E k \in 1..Len(propTypes) : propTypes[k].name = property.key
        THEN [k \in 1..Len(propTypes) |->
                 IF propTypes[k].name = property.key THEN entry ELSE propTypes[k]]
        ELSE Append(propTypes, entry)

RECURSIVE CollectPropTypes(_, _)
CollectPropTypes(properties, propTypes) ==
    IF properties = << >> THEN propTypes
    ELSE CollectPropTypes(Tail(properties), SetPropType(propTypes, Head(properties)))

\* the propType of a TypeScript property signature
TSPropType(annotation) ==
    CASE annotation = "TSStringKeyword" -> "string"
      [] annotation = "TSNumberKeyword" -> "number"
      [] annotation = "TSBooleanKeyword" -> "boolean"
      [] annotation = "TSFunctionType" -> "function"
      [] annotation = "TSTypeLiteral" -> "object"
      [] annotation = "TSArrayType" -> "array"
      [] OTHER -> "any"

\* the props pushed for one interface declaration
InterfaceProps(declaration) ==
    IF declaration.name \in {"LoginFormProps"}   \* name.includes('Props')
    THEN [k \in 1..Len(declaration.body) |->
             [name |-> declaration.body[k].key,
              type |-> TSPropType(declaration.body[k].annotation),
              required |-> ~declaration.body[k].optional]]
    ELSE << >>

\* extractFunctionComponentProps(params, props)
RECURSIVE PushNewKeys(_, _)
PushNewKeys(keys, props) ==
    IF keys = << >> THEN props
    ELSE PushNewKeys(Tail(keys),
                     IF \E k \in 1..Len(props) : props[k].name = Head(keys)
                     THEN props
                     ELSE Append(props, [name |-> Head(keys), type |-> "any",
                                         required |-> FALSE]))

extractFunctionComponentProps(firstParam, props) ==
    IF firstParam.type = "ObjectPattern" THEN PushNewKeys(firstParam.keys, props) ELSE props

RECURSIVE FlattenSeq(_)
FlattenSeq(seqs) == IF seqs = << >> THEN << >> ELSE Head(seqs) \o FlattenSeq(Tail(seqs))

RECURSIVE VisitFunctions(_, _)
VisitFunctions(functions, props) ==
    IF functions = << >> THEN props
    ELSE VisitFunctions(Tail(functions), extractFunctionComponentProps(Head(functions), props))

\* extractProps(ast): the interface props, then the propTypes entries, then
\* the destructured keys not yet in the list
extractProps(ast) ==
    LET propTypes == CollectPropTypes(FlattenSeq(ast.propTypes), << >>)
        fromInterfaces ==
            FlattenSeq([k \in 1..Len(ast.interfaces) |-> InterfaceProps(ast.interfaces[k])])
    IN  VisitFunctions(ast.functions, fromInterfaces \o propTypes)

\* prop.name.substring(2).toLowerCase() of a prop whose name starts with
\* "on" and is longer than two characters, "" for another prop
EventType(propName) ==
    CASE propName = "onLogin" -> "login"
      [] propName = "onSubmit" -> "submit"
      [] propName = "onClick" -> "click"
      [] propName = "onChange" -> "change"
      [] OTHER -> ""

\* the action extractUserActions pushes for one prop, none for most
PropActions(propName, componentName) ==
    CASE EventType(propName) = "click" -> << [type |-> "click", trigger |-> componentName] >>
      [] EventType(propName) = "submit" -> << [type |-> "submit", trigger |-> componentName] >>
      [] EventType(propName) \in {"change", "input"} ->
            << [type |-> "input", trigger |-> componentName] >>
      [] OTHER -> << >>

\* extractUserActions(component)
extractUserActions(component) ==
    FlattenSeq([k \in 1..Len(component.props) |->
                   PropActions(component.props[k].name, component.name)])
    \o IF \/ LowerIncludes(component.name) \cap {"link", "nav"} # {}
          \/ \E k \in 1..Len(component.props) : component.props[k].name \in {"to", "href"}
       THEN << [type |-> "navigation", trigger |-> component.name] >>
       ELSE << >>

\* the characters of a string
Chars(s) ==
    CASE s = "" -> << >>
      [] s = "Login" -> << "L", "o", "g", "i", "n" >>
      [] s = "Register" -> << "R", "e", "g", "i", "s", "t", "e", "r" >>
      [] s = "SignUp" -> << "S", "i", "g", "n", "U", "p" >>
      [] s = "Profile" -> << "P", "r", "o", "f", "i", "l", "e" >>
      [] s = "Settings" -> << "S", "e", "t", "t", "i", "n", "g", "s" >>
      [] s = "Dashboard" -> << "D", "a", "s", "h", "b", "o", "a", "r", "d" >>
      [] s = "User" -> << "U", "s", "e", "r" >>
      [] s = "Password" -> << "P", "a", "s", "s", "w", "o", "r", "d" >>
      [] s = "Notification" -> << "N", "o", "t", "i", "f", "i", "c", "a", "t", "i", "o", "n" >>
      [] s = "Search" -> << "S", "e", "a", "r", "c", "h" >>
      [] s = "Filter" -> << "F", "i", "l", "t", "e", "r" >>
      [] s = "Cart" -> << "C", "a", "r", "t" >>
      [] s = "Checkout" -> << "C", "h", "e", "c", "k", "o", "u", "t" >>
      [] s = "Product" -> << "P", "r", "o", "d", "u", "c", "t" >>
      [] s = "Admin" -> << "A", "d", "m", "i", "n" >>
      [] s = "Navigation" -> << "N", "a", "v", "i", "g", "a", "t", "i", "o", "n" >>
      [] s = "Menu" -> << "M", "e", "n", "u" >>
      [] s = "Form" -> << "F", "o", "r", "m" >>
      [] s = "List" -> << "L", "i", "s", "t" >>
      [] s = "Table" -> << "T", "a", "b", "l", "e" >>
      [] s = "Modal" -> << "M", "o", "d", "a", "l" >>
      [] s = "Popup" -> << "P", "o", "p", "u", "p" >>
      [] s = "Button" -> << "B", "u", "t", "t", "o", "n" >>
      [] s = "Input" -> << "I", "n", "p", "u", "t" >>
      [] s = "Select" -> << "S", "e", "l", "e", "c", "t" >>
      [] s = "Dropdown" -> << "D", "r", "o", "p", "d", "o", "w", "n" >>
      [] s = "Checkbox" -> << "C", "h", "e", "c", "k", "b", "o", "x" >>
      [] s = "Radio" -> << "R", "a", "d", "i", "o" >>
      [] s = "Sidebar" -> << "S", "i", "d", "e", "b", "a", "r" >>
      [] s = "Header" -> << "H", "e", "a", "d", "e", "r" >>
      [] s = "Footer" -> << "F", "o", "o", "t", "e", "r" >>
      [] s = "LoginForm" -> << "L", "o", "g", "i", "n", "F", "o", "r", "m" >>
      [] s = "UserList" -> << "U", "s", "e", "r", "L", "i", "s", "t" >>
      [] s = "useHelper" -> << "u", "s", "e", "H", "e", "l", "p", "e", "r" >>
      [] s = "FormLogin" -> << "F", "o", "r", "m", "L", "o", "g", "i", "n" >>
      [] s = "HTMLParser" -> << "H", "T", "M", "L", "P", "a", "r", "s", "e", "r" >>
      [] s = "dataGrid" -> << "d", "a", "t", "a", "G", "r", "i", "d" >>
      [] s = "Card" -> << "C", "a", "r", "d" >>
      [] s = "ABTest" -> << "A", "B", "T", "e", "s", "t" >>

\* [a-z] and [A-Z]
LowerCase ==
    { "a", "b", "c", "d", "e", "f", "g", "h", "i", "j", "k", "l", "m", "n", "o", "p", "q",
      "r", "s", "t", "u", "v", "w", "x", "y", "z" }

UpperCase ==
    { "A", "B", "C", "D", "E", "F", "G", "H", "I", "J", "K", "L", "M", "N", "O", "P", "Q",
      "R", "S", "T", "U", "V", "W", "X", "Y", "Z" }

\* c.toUpperCase()
ToUpperCase(c) ==
    CASE c = "a" -> "A"
      [] c = "b" -> "B"
      [] c = "c" -> "C"
      [] c = "d" -> "D"
      [] c = "e" -> "E"
      [] c = "f" -> "F"
      [] c = "g" -> "G"
      [] c = "h" -> "H"
      [] c = "i" -> "I"
      [] c = "j" -> "J"
      [] c = "k" -> "K"
      [] c = "l" -> "L"
      [] c = "m" -> "M"
      [] c = "n" -> "N"
      [] c = "o" -> "O"
      [] c = "p" -> "P"
      [] c = "q" -> "Q"
      [] c = "r" -> "R"
      [] c = "s" -> "S"
      [] c = "t" -> "T"
      [] c = "u" -> "U"
      [] c = "v" -> "V"
      [] c = "w" -> "W"
      [] c = "x" -> "X"
      [] c = "y" -> "Y"
      [] c = "z" -> "Z"
      [] OTHER -> c

\* a description of the mappings, a string the code never looks into
Text(t) == << t >>

\* semanticMappings, in the order of its entries
semanticMappings ==
    << << Chars("Login"), Text("Sign in to your account") >>,
       << Chars("Register"), Text("Create a new account") >>,
       << Chars("SignUp"), Text("Create a new account") >>,
       << Chars("Profile"), Text("Manage your profile information") >>,
       << Chars("Settings"), Text("Configure your preferences") >>,
       << Chars("Dashboard"), Text("View your overview and statistics") >>,
       << Chars("User"), Text("Your account information") >>,
       << Chars("Password"), Text("Manage password security") >>,
       << Chars("Notification"), Text("Manage your alerts and messages") >>,
       << Chars("Search"), Text("Find what you need") >>,
       << Chars("Filter"), Text("Narrow down your results") >>,
       << Chars("Cart"), Text("Your shopping cart") >>,
       << Chars("Checkout"), Text("Complete your purchase") >>,
       << Chars("Product"), Text("View product details") >>,
       << Chars("Admin"), Text("Administrative controls") >>,
       << Chars("Navigation"), Text("Navigate through the application") >>,
       << Chars("Menu"), Text("Access different sections") >>,
       << Chars("Form"), Text("Enter your information") >>,
       << Chars("List"), Text("Browse through items") >>,
       << Chars("Table"), Text("View structured data") >>,
       << Chars("Modal"), Text("View additional information") >>,
       << Chars("Popup"), Text("Quick information or action") >>,
       << Chars("Button"), Text("Perform an action") >>,
       << Chars("Input"), Text("Enter information") >>,
       << Chars("Select"), Text("Choose from options") >>,
       << Chars("Dropdown"), Text("Select from a list") >>,
       << Chars("Checkbox"), Text("Toggle an option") >>,
       << Chars("Radio"), Text("Choose one option") >>,
       << Chars("Sidebar"), Text("Access additional navigation") >>,
       << Chars("Header"), Text("Main navigation area") >>,
       << Chars("Footer"), Text("Additional information") >> >>

\* s.includes(pattern)
StringIncludes(s, pattern) ==
    \E k \in 0..(Len(s) - Len(pattern)) : SubSeq(s, k + 1, k + Len(pattern)) = pattern

\* mappings[componentName]: the value of the key, if the key is there
ValuesAt(mappings, componentName) ==
    { mappings[k][2] : k \in { m \in 1..Len(mappings) : mappings[m][1] = componentName } }

\* s.replace(/([a-z])([A-Z])/g, '$1 $2')
RECURSIVE ReplaceLowerUpper(_)
ReplaceLowerUpper(s) ==
    IF Len(s) < 2 THEN s
    ELSE IF s[1] \in LowerCase /\ s[2] \in UpperCase
         THEN << s[1], " ", s[2] >> \o ReplaceLowerUpper(SubSeq(s, 3, Len(s)))
         ELSE << s[1] >> \o ReplaceLowerUpper(Tail(s))

\* s.replace(/([A-Z])([A-Z][a-z])/g, '$1 $2')
RECURSIVE ReplaceUpperUpperLower(_)
ReplaceUpperUpperLower(s) ==
    IF Len(s) < 3 THEN s
    ELSE IF s[1] \in UpperCase /\ s[2] \in UpperCase /\ s[3] \in LowerCase
         THEN << s[1], " ", s[2], s[3] >> \o ReplaceUpperUpperLower(SubSeq(s, 4, Len(s)))
         ELSE << s[1] >> \o ReplaceUpperUpperLower(Tail(s))

\* s.replace(/^./, (str) => str.toUpperCase())
CapitalizeFirst(s) == IF s = << >> THEN s ELSE << ToUpperCase(s[1]) >> \o Tail(s)

\* humanReadable
HumanReadable(componentName) ==
    CapitalizeFirst(ReplaceUpperUpperLower(ReplaceLowerUpper(componentName)))

\* a precedence that asks the built-in exact mapping before the custom one
generateDescriptionBuiltinFirst(customMappings, componentName) ==
    LET matches == { k \in 1..Len(semanticMappings) :
                        StringIncludes(componentName, semanticMappings[k][1]) }
    IN  IF \E v \in ValuesAt(semanticMappings, componentName) : v # << >>
        THEN CHOOSE v \in ValuesAt(semanticMappings, componentName) : TRUE
        ELSE IF \E v \in ValuesAt(customMappings, componentName) : v # << >>
        THEN CHOOSE v \in ValuesAt(customMappings, componentName) : TRUE
        ELSE IF matches # {}
        THEN semanticMappings[CHOOSE k \in matches : \A m \in matches : k <= m][2]
        ELSE HumanReadable(componentName)

\* generateDescription(componentName, props, additionalContext) of a
\* processor constructed with customMappings; only the name is read
generateDescription(customMappings, componentName) ==
    LET matches == { k \in 1..Len(semanticMappings) :
                        StringIncludes(componentName, semanticMappings[k][1]) }
    IN  IF \E v \in ValuesAt(customMappings, componentName) : v # << >>
        THEN CHOOSE v \in ValuesAt(customMappings, componentName) : TRUE
        ELSE IF \E v \in ValuesAt(semanticMappings, componentName) : v # << >>
        THEN CHOOSE v \in ValuesAt(semanticMappings, componentName) : TRUE
        ELSE IF matches # {}
        THEN semanticMappings[CHOOSE k \in matches : \A m \in matches : k <= m][2]
        ELSE HumanReadable(componentName)

\* parseComponent(filePath), from the syntax tree of the file
ParseAst(basename, ast) ==
    LET componentName == extractComponentName(basename, ast)
        props == extractProps(ast)
        userActions == extractUserActions([name |-> componentName, props |-> props])
    IN  [name |-> componentName,
         filePath |-> basename,
         props |-> props,
         children |-> << >>,
         userActions |-> userActions,
         semanticCategory |-> categorizeComponent(componentName, props),
         description |-> generateDescription(<< >>, Chars(componentName))]

\* the file names of the study, as their words and separators
SampleBasenames ==
    { << "LoginForm" >>, << "login", "-", "form" >>, << "user", "_", "list" >>, << "_" >> }

DefaultIdentifier ==
    [kind |-> "ExportDefaultDeclaration", declaration |-> "Identifier", name |-> "LoginForm"]

SampleExports ==
    { DefaultIdentifier,
      [kind |-> "ExportDefaultDeclaration", declaration |-> "ArrowFunctionExpression", name |-> ""],
      [kind |-> "ExportNamedDeclaration", declaration |-> "FunctionDeclaration", name |-> "useHelper"],
      [kind |-> "ExportNamedDeclaration", declaration |-> "VariableDeclaration", name |-> ""] }

\* the export statements of a file: at most one of them a default export
ExportLists ==
    { l \in DistinctLists(SampleExports, MaxExports) :
        \A a, b \in 1..Len(l) :
            a # b => ~(l[a].kind = "ExportDefaultDeclaration"
                       /\ l[b].kind = "ExportDefaultDeclaration") }

SampleSignatures ==
    { [key |-> "onLogin", annotation |-> "TSFunctionType", optional |-> FALSE],
      [key |-> "redirectUrl", annotation |-> "TSStringKeyword", optional |-> TRUE] }

\* no interface, or one with a body
InterfaceLists ==
    { << >> } \cup
    { << [name |-> n, body |-> b] >> :
        n \in {"LoginFormProps", "FormState"},
        b \in DistinctLists(SampleSignatures, MaxProps) \ { << >> } }

SampleProperties ==
    { [key |-> "onLogin", value |-> "PropTypes.func.isRequired"],
      [key |-> "redirectUrl", value |-> "PropTypes.string"] }

\* no propTypes assignment, or one of an object with properties
PropTypesLists ==
    { << >> } \cup { << o >> : o \in DistinctLists(SampleProperties, MaxProps) \ { << >> } }

\* no function, or one: without a destructured first parameter, or with one
FunctionLists ==
    { << >>, << [type |-> "Identifier", keys |-> << >>] >> } \cup
    { << [type |-> "ObjectPattern", keys |-> k] >> :
        k \in DistinctLists({"onLogin", "redirectUrl", "onSubmit"}, MaxProps) \ { << >> } }

Asts ==
    [exports : ExportLists, interfaces : InterfaceLists, propTypes : PropTypesLists,
     functions : FunctionLists]

ParseInit ==
    /\ AnalyzeIdle
    /\ LoopIdle
    /\ arg \in [basename : SampleBasenames, ast : Asts]
    /\ res = NotCalled

\* analyzer.parseComponent(filePath)
ParseCall ==
    /\ res = NotCalled
    /\ res' = Returned(ParseAst(arg.basename, arg.ast))
    /\ UNCHANGED << analyzeVars, loopPos, opsInFlight, arg >>

SpecParse == ParseInit /\ [][ParseCall]_vars

(* ------------------- NLPProcessor.generateDescription ------------------- *)
\* the component names of the study: a mapping key, names holding one or two
\* keys, names holding none (with an acronym, in camel case, plain), no name
DescribedNames ==
    { Chars(n) : n \in {"Login", "LoginForm", "FormLogin", "UserList", "HTMLParser",
                        "dataGrid", "ABTest", "Card", "useHelper", ""} }

CustomKeys == << "Login", "Card", "HTMLParser" >>

\* the customMappings of the configuration: each key absent, or mapped to
\* the empty string, or mapped to a text
CustomMappings ==
    { LET present == SelectSeq(CustomKeys, LAMBDA k : f[k] # "absent")
      IN  [k \in 1..Len(present) |->
              << Chars(present[k]),
                 IF f[present[k]] = "empty" THEN << >> ELSE Text("Custom description") >>] :
        f \in [SeqToSet(CustomKeys) -> {"absent", "empty", "text"}] }

DescribeInit ==
    /\ AnalyzeIdle
    /\ LoopIdle
    /\ arg \in [customMappings : CustomMappings, componentName : DescribedNames]
    /\ res = NotCalled

\* new NLPProcessor(customMappings).generateDescription(componentName, ...)
DescribeCall ==
    /\ res = NotCalled
    /\ res' = Returned(generateDescription(arg.customMappings, arg.componentName))
    /\ UNCHANGED << analyzeVars, loopPos, opsInFlight, arg >>

SpecDescribe == DescribeInit /\ [][DescribeCall]_vars

(* -------------------- PatternMatcher.detectWorkflows -------------------- *)
\* the action ReactAnalyzer builds for a handler prop of a component
BuiltAction(type, componentName, description, outcome) ==
    [type |-> type, trigger |-> componentName, description |-> description,
     outcome |-> outcome]

\* a component with at most one handler prop, as ReactAnalyzer returns it
BuiltComponent(name, category, userActions) ==
    [name |-> name, filePath |-> << "src", name >>, userActions |-> userActions,
     semanticCategory |-> category]

\* the components of the study: two forms (onSubmit), two buttons (onClick),
\* a search box (onChange) and a list without handlers
WorkflowComponents ==
    { BuiltComponent("RegisterForm", "FORM",
          << BuiltAction("submit", "RegisterForm", "Submit the register form",
                         "Sends the form data") >>),
      BuiltComponent("LoginForm", "FORM",
          << BuiltAction("submit", "LoginForm", "Submit the login form",
                         "Sends the form data") >>),
      BuiltComponent("CreateAccount", "INTERACTION",
          << BuiltAction("click", "CreateAccount", "Click the create account",
                         "Performs the create account action") >>),
      BuiltComponent("CheckoutButton", "INTERACTION",
          << BuiltAction("click", "CheckoutButton", "Click the checkout button",
                         "Performs the checkout button action") >>),
      BuiltComponent("SearchBar", "LAYOUT",
          << BuiltAction("input", "SearchBar", "Enter information in the search bar",
                         "Updates the input value") >>),
      BuiltComponent("UserList", "DISPLAY", << >>) }

WorkflowComponentLists == UNION { [1..n -> WorkflowComponents] : n \in 0..MaxComponents }

WorkflowsInit ==
    /\ AnalyzeIdle
    /\ LoopIdle
    /\ arg \in WorkflowComponentLists
    /\ res = NotCalled

\* patternMatcher.detectWorkflows(components)
DetectWorkflowsCall ==
    /\ res = NotCalled
    /\ res' = Returned(detectWorkflows(arg))
    /\ UNCHANGED << analyzeVars, loopPos, opsInFlight, arg >>

SpecWorkflows == WorkflowsInit /\ [][DetectWorkflowsCall]_vars

(* ---------------------------- PluginManager --------------------------- *)
\* discoverAndLoadPlugins calls on one PluginManager
MaxDiscoveries == 2

\* A plugin instance: its ID, the plugin interfaces whose methods it has, what
\* getSupportedFrameworks / getSupportedFormats / get...Capabilities returns,
\* and its onUnload hook: none, one that returns, or one that throws.
PluginInstance(id, interfaces, supported, onUnload) ==
    [id |-> id, interfaces |-> interfaces, supported |-> supported, onUnload |-> onUnload]

\* the plugins an installation can offer, in discovery order (configured
\* paths, NPM packages, local directory); two of them report the same ID
InstalledPlugins ==
    << PluginInstance("a", {"analyzer"}, << "react" >>, "returns"),
       PluginInstance("b", {"generator"}, << "markdown" >>, "throws"),
       PluginInstance("a", {"nlp"}, << "sentiment" >>, "none"),
       PluginInstance("c", {"patternMatcher"}, << "sentiment" >>, "returns"),
       PluginInstance("d", {"analyzer", "generator"}, << "vue", "html" >>, "throws"),
       PluginInstance("e", {}, << >>, "none") >>

\* the installations: the sublists of InstalledPlugins
RECURSIVE SubLists(_, _)
SubLists(seq, n) ==
    IF n > Len(seq) THEN { << >> }
    ELSE LET rest == SubLists(seq, n + 1)
         IN  rest \cup { << seq[n] >> \o r : r \in rest }

Installations == SubLists(InstalledPlugins, 1)

\* the IDs the calls of the study name; "x" is the ID of no plugin
PluginIds == {"a", "b", "c", "d", "x"}

\* the optional pluginId argument when it is not given
NoPluginId == ""

\* the pluginId arguments the getters of the study are called with
RequestedIds == {NoPluginId, "a", "d"}

isValidAnalyzerPlugin(plugin) == "analyzer" \in plugin.interfaces

isValidGeneratorPlugin(plugin) == "generator" \in plugin.interfaces

isValidNlpPlugin(plugin) == "nlp" \in plugin.interfaces

isValidPatternMatcherPlugin(plugin) == "patternMatcher" \in plugin.interfaces

registerAnalyzerPlugin(pm, plugin) == [pm EXCEPT !.analyzers = Append(@, plugin)]

registerGeneratorPlugin(pm, plugin) == [pm EXCEPT !.generators = Append(@, plugin)]

registerNlpPlugin(pm, plugin) == [pm EXCEPT !.nlpPlugins = Append(@, plugin)]

registerPatternMatcherPlugin(pm, plugin) ==
    [pm EXCEPT !.patternMatcherPlugins = Append(@, plugin)]

\* _validateAndRegisterPlugin: an ID already in loadedPluginIds is skipped; the
\* instance goes to the registry of the first interface it conforms to, and
\* its ID is added to loadedPluginIds; onLoad's exceptions are caught
validateAndRegisterPlugin(pm, pluginInstance) ==
    IF pluginInstance.id \in pm.loadedPluginIds THEN pm
    ELSE LET registered ==
                IF isValidAnalyzerPlugin(pluginInstance)
                THEN << registerAnalyzerPlugin(pm, pluginInstance) >>
                ELSE IF isValidGeneratorPlugin(pluginInstance)
                THEN << registerGeneratorPlugin(pm, pluginInstance) >>
                ELSE IF isValidNlpPlugin(pluginInstance)
                THEN << registerNlpPlugin(pm, pluginInstance) >>
                ELSE IF isValidPatternMatcherPlugin(pluginInstance)
                THEN << registerPatternMatcherPlugin(pm, pluginInstance) >>
                ELSE << >>
         IN  IF registered # << >>
             THEN [registered[1] EXCEPT !.loadedPluginIds = @ \cup {pluginInstance.id}]
             ELSE pm

RECURSIVE LoadPlugins(_, _, _)
LoadPlugins(pm, found, n) ==
    IF n > Len(found) THEN pm
    ELSE LoadPlugins(validateAndRegisterPlugin(pm, found[n]), found, n + 1)

\* discoverAndLoadPlugins: loadedPluginIds is cleared, then every plugin found
\* is validated and registered, in discovery order
discoverAndLoadPlugins(pm, found) ==
    LoadPlugins([pm EXCEPT !.loadedPluginIds = {}], found, 1)

\* plugins.findIndex(p => p.getPluginId() === id), 0 for -1
FindIndex(plugins, id) ==
    LET hits == { k \in 1..Len(plugins) : plugins[k].id = id }
    IN  IF hits = {} THEN 0 ELSE CHOOSE k \in hits : \A h \in hits : k <= h

\* plugins.splice(index, 1)
Splice(plugins, index) ==
    SubSeq(plugins, 1, index - 1) \o SubSeq(plugins, index + 1, Len(plugins))

\* the registries in the order unloadPlugin searches them
Registries == << "analyzers", "generators", "nlpPlugins", "patternMatcherPlugins" >>

\* the registry unloadPlugin removes from: the first one holding the ID
RegistryHolding(pm, id) ==
    LET Holds(registry) == FindIndex(pm[registry], id) # 0
    IN  SelectSeq(Registries, Holds)

\* unloadPlugin: findAndRemove on the registries in turn, stopping at the
\* first that holds the ID: the first instance with the ID is spliced out and
\* the ID deleted from loadedPluginIds; what onUnload throws is caught
unloadPlugin(pm, pluginId) ==
    LET holding == RegistryHolding(pm, pluginId)
    IN  IF holding = << >> THEN pm
        ELSE [pm EXCEPT ![holding[1]] = Splice(@, FindIndex(@, pluginId)),
                        !.loadedPluginIds = @ \ {pluginId}]

\* the candidates of a getter: the plugins of the registry that support what
\* is asked (when something is asked) and have the ID (when one is given)
Candidates(plugins, wanted, pluginId) ==
    LET Fits(p) == /\ wanted = "" \/ Includes(p.supported, wanted)
                   /\ pluginId = NoPluginId \/ p.id = pluginId
    IN  SelectSeq(plugins, Fits)

\* what a getter returns: what create... of candidates[0] makes (an instance,
\* or null when it throws), named by the plugin it comes from; else the
\* built-in class when there is a fallback and no ID was given; else null
GetterResult(candidates, fallback, pluginId) ==
    IF candidates = << >>
    THEN [from |-> IF fallback /\ pluginId = NoPluginId THEN "builtin" ELSE "null"]
    ELSE [from |-> "plugin", plugin |-> candidates[1].id]

getAnalyzer(pm, framework, pluginId) ==
    GetterResult(Candidates(pm.analyzers, framework, pluginId), framework = "react", pluginId)

getGenerator(pm, format, pluginId) ==
    GetterResult(Candidates(pm.generators, format, pluginId), format = "markdown", pluginId)

getNlpProcessor(pm, capability, pluginId) ==
    GetterResult(Candidates(pm.nlpPlugins, capability, pluginId), FALSE, pluginId)

getPatternMatcher(pm, capability, pluginId) ==
    GetterResult(Candidates(pm.patternMatcherPlugins, capability, pluginId), FALSE, pluginId)

PluginsInit ==
    /\ AnalyzeIdle
    /\ LoopIdle
    /\ arg \in Installations
    /\ res = NotCalled

PluginsStudyUnchanged ==
    UNCHANGED << files, cache, output, pc, componentFiles, i, initialCachedRelativePaths,
                 processedRelativeFilePaths, components, changedOrNewRelativeFilePaths,
                 deletedRelativeFilePaths, j, changeset, results, log, cache0, output0,
                 mkdirOk, error, prev, runs, faults, docs, auxVars >>

\* await pluginManager.discoverAndLoadPlugins()
DiscoverAndLoadPluginsCall ==
    /\ pluginHistory.discoveries < MaxDiscoveries
    /\ pluginManager' = discoverAndLoadPlugins(pluginManager, arg)
    /\ call' = [op |-> "discoverAndLoadPlugins"]
    /\ pluginHistory' = [discoveries |-> pluginHistory.discoveries + 1,
                         unloaded |-> pluginHistory.unloaded
                                        \ pluginManager'.loadedPluginIds]
    /\ PluginsStudyUnchanged

\* await pluginManager.unloadPlugin(pluginId)
UnloadPluginCall(pluginId) ==
    /\ pluginManager' = unloadPlugin(pluginManager, pluginId)
    /\ call' = [op |-> "unloadPlugin", pluginId |-> pluginId,
                found |-> RegistryHolding(pluginManager, pluginId) # << >>]
    /\ pluginHistory' = [pluginHistory EXCEPT
                           !.unloaded = IF call'.found THEN @ \cup {pluginId} ELSE @]
    /\ PluginsStudyUnchanged

GetAnalyzerCall(framework, pluginId) ==
    /\ call' = [op |-> "getAnalyzer", pluginId |-> pluginId,
                result |-> getAnalyzer(pluginManager, framework, pluginId)]
    /\ UNCHANGED << pluginManager, pluginHistory >>
    /\ PluginsStudyUnchanged

GetGeneratorCall(format, pluginId) ==
    /\ call' = [op |-> "getGenerator", pluginId |-> pluginId,
                result |-> getGenerator(pluginManager, format, pluginId)]
    /\ UNCHANGED << pluginManager, pluginHistory >>
    /\ PluginsStudyUnchanged

GetNlpProcessorCall(capability, pluginId) ==
    /\ call' = [op |-> "getNlpProcessor", pluginId |-> pluginId,
                result |-> getNlpProcessor(pluginManager, capability, pluginId)]
    /\ UNCHANGED << pluginManager, pluginHistory >>
    /\ PluginsStudyUnchanged

GetPatternMatcherCall(capability, pluginId) ==
    /\ call' = [op |-> "getPatternMatcher", pluginId |-> pluginId,
                result |-> getPatternMatcher(pluginManager, capability, pluginId)]
    /\ UNCHANGED << pluginManager, pluginHistory >>
    /\ PluginsStudyUnchanged

NextPlugins ==
    \/ DiscoverAndLoadPluginsCall
    \/ \E pluginId \in PluginIds : UnloadPluginCall(pluginId)
    \/ \E framework \in {"react", "vue"}, pluginId \in RequestedIds :
          GetAnalyzerCall(framework, pluginId)
    \/ \E format \in {"markdown", "html"}, pluginId \in RequestedIds :
          GetGeneratorCall(format, pluginId)
    \/ \E capability \in {"", "sentiment"}, pluginId \in RequestedIds :
          GetNlpProcessorCall(capability, pluginId)
    \/ \E capability \in {"", "sentiment"}, pluginId \in RequestedIds :
          GetPatternMatcherCall(capability, pluginId)

SpecPlugins == PluginsInit /\ [][NextPlugins]_vars

(* ------------------------ what a run reports ------------------------- *)
\* the lines of the per-file loop for a file whose iteration is over
FileMessages(f) ==
    (IF log[f].branch = "hit"
     THEN { [message |-> "[CACHE HIT] Using cached data for", path |-> f] } ELSE {})
    \cup (IF log[f].branch = "stale"
          THEN { [message |-> "[CACHE STALE] Re-analyzing", path |-> f] } ELSE {})
    \cup (IF log[f].branch = "miss"
          THEN { [message |-> "[CACHE MISS] Analyzing new file", path |-> f] } ELSE {})
    \cup (IF log[f].extracted /\ ~log[f].error
          THEN { [message |-> "Analyzed and cached component", path |-> f] } ELSE {})
    \cup (IF log[f].error
          THEN { [message |-> "Error processing file", path |-> f] } ELSE {})

\* what the run has written to the console: the two counts printed before the
\* per-file loop, the lines of the loops, and the lines of the completion
ConsoleOfRun ==
    (IF pc \in {"files", "deleted", "save", "done"} \/ (pc = "failed" /\ error # "mkdir")
     THEN { [message |-> "Found component files to process", count |-> Len(componentFiles)],
            [message |-> "Found items in cache initially",
             count |-> Len(initialCachedRelativePaths)] }
     ELSE {})
    \cup UNION { FileMessages(f) : f \in DOMAIN log }
    \cup { [message |-> "[CACHE DELETE] Removing deleted file from cache",
            path |-> deletedRelativeFilePaths[k]] : k \in 1..Len(deletedRelativeFilePaths) }
    \cup (IF pc = "done"
          THEN { [message |-> "Changeset recorded to"],
                 [message |-> "Analysis complete. Results saved to"] }
          ELSE {})
    \cup (IF pc = "failed" THEN { [message |-> "Error during analysis"] } ELSE {})

(* ------------------------------ properties ---------------------------- *)
\* the stored entry of a path at the start of the run, if there is one
HasEntry(dir, f) == getCacheFilePath(f) \in DOMAIN dir

EntryOf(dir, f) == dir[getCacheFilePath(f)]

\* the paths of the scan of the current run
ScannedPaths == {f \in Files : files[f] # "absent"}

\* the run's iteration for f is over
Processed(f) == f \in DOMAIN log

\* the metadata the run put in components for path f
ComponentsOf(f) == LET At(c) == c.filePath = f IN SelectSeq(components, At)

\* C1 (as stated): idempotence of analyze. A run that completes after a
\* completed run, with no file edited in between and no I/O fault in either,
\* produces the same components, patterns and workflows, and its changeset has
\* no new, changed or deleted component and all three artifact flags false.
C1_Idempotence ==
    (pc = "done" /\ prev.done /\ faults = 0) =>
        /\ components = prev.components
        /\ results.patterns = prev.patterns
        /\ results.workflows = prev.workflows
        /\ changeset.newComponents = << >>
        /\ changeset.changedComponents = << >>
        /\ changeset.deletedComponents = << >>
        /\ ~changeset.componentsJsonChanged
        /\ ~changeset.patternsJsonChanged
        /\ ~changeset.workflowsJsonChanged

\* f has an entry of this version at the start of the run: valid, with f as the
\* stored filePath
CachedAtStart(f) ==
    /\ HasEntry(cache0, f)
    /\ EntryIsValid(EntryOf(cache0, f))
    /\ HasStoredFilePath(EntryOf(cache0, f))
    /\ EntryOf(cache0, f).componentMetadata.filePath = f

\* f was cached and its content now has another fingerprint
StaleAtStart(f) ==
    /\ CachedAtStart(f)
    /\ files[f] \in Sources
    /\ EntryOf(cache0, f).sourceFileHash # calculateStringMD5(files[f])

\* the entry of f now is the one cacheComponent writes for f's current content
EntryIsCurrent(f) ==
    /\ HasEntry(cache, f)
    /\ EntryOf(cache, f) = CacheEntry(calculateStringMD5(files[f]),
                                      CachedMetadata(f, files[f]))

EndedPastFiles == pc = "done" \/ (pc = "failed" /\ error = "remove")

\* C3 (as stated): deletion correctness. When the run is over, every file that
\* was cached by an earlier run and is no longer in the scan is listed in the
\* changeset's deletedComponents and has no cache entry left.
C3_DeletionCorrectness ==
    EndedPastFiles =>
        \A f \in Files : (CachedAtStart(f) /\ files[f] = "absent") =>
            /\ changeset.written
            /\ Includes(changeset.deletedComponents, f)
            /\ ~HasEntry(cache, f)

\* the run reused the stored metadata of f: the hit branch pushed it
Reused(f) == Processed(f) /\ log[f].branch = "hit" /\ ~log[f].error

\* f had some cache file at the start whose sourceFileHash is the fingerprint
\* of f's current content
HashMatchesAtStart(f) ==
    /\ HasEntry(cache0, f)
    /\ "sourceFileHash" \in DOMAIN EntryOf(cache0, f)
    /\ EntryOf(cache0, f).sourceFileHash = calculateStringMD5(files[f])

\* what the run put in components for f is the fresh extraction and nothing else
FreshResult(f) ==
    ComponentsOf(f) \in { << >>, << CachedMetadata(f, files[f]) >> }

\* C4 (as stated): the stored metadata of a scanned file is reused if and only
\* if an entry for its path exists whose sourceFileHash is the hash of the
\* current content; in every other case the file is extracted again in full and
\* nothing stored is carried into the result.
C4_AsStated ==
    \A f \in Files : Processed(f) =>
        /\ Reused(f) <=> HashMatchesAtStart(f)
        /\ ~HashMatchesAtStart(f) => (log[f].extracted /\ FreshResult(f))

\* the entry of f at the start passes getCachedComponent's validation, its
\* metadata has a filePath, and its hash is the hash of the readable content
ReusableAtStart(f) ==
    /\ files[f] \in Sources
    /\ HashMatchesAtStart(f)
    /\ EntryIsValid(EntryOf(cache0, f))
    /\ HasStoredFilePath(EntryOf(cache0, f))

\* the content of f can be hashed and the lookup returns no entry with that hash
MustExtractAtStart(f) ==
    /\ files[f] \in Sources
    /\ ~(HashMatchesAtStart(f) /\ EntryIsValid(EntryOf(cache0, f)))

\* C4 (amended): the stored metadata of a scanned file is reused if and only
\* if the file can be hashed and its entry parses, has a sourceFileHash equal
\* to the hash of the current content and a componentMetadata with a filePath;
\* what is reused is the stored metadata with its filePath made relative. When
\* the file can be hashed and the entry is absent, unparsable, lacks a field or
\* has another hash, the file is extracted again in full and nothing stored is
\* carried into the result. A file that cannot be hashed, or whose matching
\* entry has metadata without a filePath, is neither reused nor extracted.
C4_HitIffValidAndSameHash ==
    \A f \in Files : Processed(f) =>
        /\ Reused(f) <=> ReusableAtStart(f)
        /\ Reused(f) =>
              ComponentsOf(f) = << NormalizeCachedFilePath(EntryOf(cache0, f).componentMetadata) >>
        /\ MustExtractAtStart(f) => (log[f].extracted /\ FreshResult(f))
        /\ (~ReusableAtStart(f) /\ ~MustExtractAtStart(f)) =>
              (~log[f].extracted /\ ComponentsOf(f) = << >>)

\* one run reused the entry of one file and extracted another file whose entry
\* had the hash of an older content
C4_Witness ==
    \E f, g \in Files :
        /\ Reused(f)
        /\ ReusableAtStart(f)
        /\ Processed(g)
        /\ StaleAtStart(g)
        /\ log[g].branch = "stale"
        /\ log[g].extracted

\* the project-relative paths that have a cache file when the run starts
CacheKeysAtStart == {f \in Files : HasEntry(cache0, f)}

\* every cache file at the start of the run is a complete entry, of this
\* version or of an older one
WellFormedAtStart ==
    \A f \in CacheKeysAtStart :
        EntryIsValid(EntryOf(cache0, f)) /\ HasStoredFilePath(EntryOf(cache0, f))

\* C5 (as stated, for caches that hold complete entries only): the changeset's
\* deletedComponents is exactly the cache keys present before the run minus
\* the paths of the run's scan, and a file of the scan is never listed as
\* deleted, under its relative or its absolute path, whatever became of its
\* processing.
C5_DeletedIsKeysMinusScan ==
    (changeset.written /\ WellFormedAtStart) =>
        /\ SeqToSet(changeset.deletedComponents) = CacheKeysAtStart \ ScannedPaths
        /\ \A f \in ScannedPaths :
              /\ ~Includes(changeset.deletedComponents, f)
              /\ ~Includes(changeset.deletedComponents, pathResolve(projectRoot, f))

\* f is a scanned file with no cache file at the start and a text that parses
NewAtStart(f) == ~HasEntry(cache0, f) /\ files[f] \in {"form", "nav"}

\* C6 (as stated): when a completed run ends, every scanned file that had no
\* cache entry at the start and whose extraction succeeds has an entry with the
\* hash of its content and the extracted metadata, and is listed in
\* newComponents and not in changedComponents.
C6_AsStated ==
    pc = "done" =>
        \A f \in Files : NewAtStart(f) =>
            /\ EntryIsCurrent(f)
            /\ Includes(changeset.newComponents, f)
            /\ ~Includes(changeset.changedComponents, f)

\* C6 (amended): for a scanned file that had no cache entry at the start and
\* whose extraction succeeds, once its iteration ended without an error (the
\* cache write succeeded too) the cache holds an entry with the hash of its
\* content and the extracted metadata, the metadata is in components, and a
\* changeset the run writes lists the path in newComponents and not in
\* changedComponents.
C6_MissIsCachedAndNew ==
    \A f \in Files : (NewAtStart(f) /\ Processed(f) /\ ~log[f].error) =>
        /\ log[f].branch = "miss"
        /\ EntryIsCurrent(f)
        /\ ComponentsOf(f) = << CachedMetadata(f, files[f]) >>
        /\ changeset.written =>
              /\ Includes(changeset.newComponents, f)
              /\ ~Includes(changeset.changedComponents, f)

\* a completed run extracted and cached a file that had no entry, while
\* another path was in the cache
C6_Witness ==
    /\ pc = "done"
    /\ initialCachedRelativePaths # << >>
    /\ \E f \in Files :
          /\ NewAtStart(f)
          /\ log[f].branch = "miss"
          /\ EntryIsCurrent(f)
          /\ Includes(changeset.newComponents, f)

\* the cache files the run wrote: those that are not as they were at its start
WrittenEntries ==
    {k \in DOMAIN cache : k \notin DOMAIN cache0 \/ cache[k] # cache0[k]}

\* C7: every metadata the run put in components, stored in components.json or
\* wrote to the cache has as filePath the project-relative path of a scanned
\* file, never an absolute path; a complete entry the run wrote is stored under
\* the key of that relative path.
C7_FilePathRelative ==
    /\ \A k \in 1..Len(components) :
          /\ ~pathIsAbsolute(components[k].filePath)
          /\ Includes(processedRelativeFilePaths, components[k].filePath)
    /\ \A k \in WrittenEntries : HasStoredFilePath(cache[k]) =>
          /\ ~pathIsAbsolute(cache[k].componentMetadata.filePath)
          /\ k = getCacheFilePath(cache[k].componentMetadata.filePath)
    /\ (pc = "done" /\ "components.json" \in DOMAIN output) =>
          \A k \in 1..Len(JSONparse(output["components.json"])) :
              ~pathIsAbsolute(JSONparse(output["components.json"])[k].filePath)

\* a completed run reused a legacy entry whose stored filePath is absolute and
\* extracted and cached another file, for which the analyzer returned an
\* absolute filePath
C7_Witness ==
    /\ pc = "done"
    /\ \E f, g \in Files :
          /\ Reused(f)
          /\ pathIsAbsolute(EntryOf(cache0, f).componentMetadata.filePath)
          /\ ComponentsOf(f) # << >>
          /\ Processed(g) /\ log[g].branch = "miss" /\ ~log[g].error
          /\ pathIsAbsolute(parseComponent(pathResolve(projectRoot, g), files[g]).filePath)
          /\ getCacheFilePath(g) \in WrittenEntries

\* the run's iteration for f failed in hashing or in extraction
FailedInHashOrExtraction(f) ==
    Processed(f) /\ files[f] \in {"unreadable", "broken"}

\* the cache file of f is as it was when the run started
EntryUnchanged(f) ==
    /\ HasEntry(cache, f) <=> HasEntry(cache0, f)
    /\ HasEntry(cache, f) => EntryOf(cache, f) = EntryOf(cache0, f)

\* the failure of f did not stop the per-file loop, and f contributed nothing
SkippedAndLoopGoesOn(f) ==
    /\ pc # "files" => \A g \in ScannedPaths : Processed(g)
    /\ pc = "files" => i <= Len(componentFiles)
    /\ ComponentsOf(f) = << >>
    /\ ~Includes(changedOrNewRelativeFilePaths, f)
    /\ changeset.written =>
          /\ ~Includes(changeset.newComponents, f)
          /\ ~Includes(changeset.changedComponents, f)

\* C8 (as stated): when hashing or extraction of a scanned file fails, the run
\* goes on to every remaining file, the file contributes nothing to components,
\* newComponents or changedComponents, and its cache entry is exactly as it was
\* before the run.
C8_AsStated ==
    \A f \in Files : FailedInHashOrExtraction(f) =>
        SkippedAndLoopGoesOn(f) /\ EntryUnchanged(f)

\* C8 (amended): as C8, except for the cache entry: it is exactly as it was
\* before the run unless the extraction failed and the entry was one that
\* parses but lacks sourceFileHash or componentMetadata; such an entry has been
\* removed by the lookup that precedes the extraction (or is still as it was,
\* when its unlink failed).
C8_FailedFileIsSkipped ==
    \A f \in Files : FailedInHashOrExtraction(f) =>
        /\ SkippedAndLoopGoesOn(f)
        /\ \/ EntryUnchanged(f)
           \/ /\ files[f] = "broken"
              /\ LookupUnlinks(cache0, f)
              /\ ~HasEntry(cache, f)

\* a completed run skipped the first file of the scan, whose text does not
\* parse and which has a complete entry, kept that entry, and went on to cache
\* the second file
C8_Witness ==
    /\ pc = "done"
    /\ \E f, g \in Files :
          /\ f = FileOrder[1] /\ g = FileOrder[2]
          /\ files[f] = "broken"
          /\ Processed(f) /\ log[f].extracted /\ log[f].error
          /\ CachedAtStart(f)
          /\ EntryUnchanged(f)
          /\ Processed(g) /\ ~log[g].error
          /\ ComponentsOf(g) # << >>

\* C9 (as stated, per-file operations only): no failure of a per-file
\* operation aborts the run; a run that created its cache directory ends
\* failed only when the I/O on an artifact or on the changeset failed.
C9_NoPerFileAbort ==
    (pc = "failed" /\ mkdirOk) => error = "artifact"

\* C10: when the cache directory cannot be created, CacheManager.create
\* throws and the run ends failed with no file processed, nothing put in
\* components, no patterns or workflows computed, the cache and the output
\* directory as they were and no changeset written.
C10_CreateFailureIsFatal ==
    ~mkdirOk =>
        /\ pc = "failed"
        /\ error = "mkdir"
        /\ log = NoLog
        /\ processedRelativeFilePaths = << >>
        /\ components = << >>
        /\ ~results.computed
        /\ ~changeset.written
        /\ cache = cache0
        /\ output = output0

\* a run over a project with files and cache entries could not create the
\* cache directory, after an earlier run had saved its artifacts
C10_Witness ==
    /\ ~mkdirOk
    /\ pc = "failed"
    /\ ScannedPaths # {}
    /\ DOMAIN cache0 # {}
    /\ "changeset.json" \in DOMAIN output0

\* the cache file of f at the start does not parse or lacks sourceFileHash,
\* componentMetadata or the metadata's filePath
InvalidAtStart(f) ==
    /\ HasEntry(cache0, f)
    /\ ~(EntryIsValid(EntryOf(cache0, f)) /\ HasStoredFilePath(EntryOf(cache0, f)))

\* C11 (as stated): when a file that can be hashed is looked up and its cache
\* file does not parse or lacks a required field, the lookup is a miss and the
\* invalid file is gone from storage afterwards (removed, or replaced by a
\* fresh entry), also when the extraction fails; no I/O fault is needed for
\* the contrary.
C11_InvalidEntryPurged ==
    \A f \in Files :
        (Processed(f) /\ files[f] \in Sources /\ InvalidAtStart(f) /\ faults = 0) =>
            /\ log[f].branch = "miss"
            /\ HasEntry(cache, f) => EntryOf(cache, f) # EntryOf(cache0, f)

\* the three artifacts of a completed run: name, new value, flag in the changeset
ArtifactsOfRun ==
    { [name |-> "components.json", data |-> components,
       flag |-> changeset.componentsJsonChanged],
      [name |-> "patterns.json", data |-> results.patterns,
       flag |-> changeset.patternsJsonChanged],
      [name |-> "workflows.json", data |-> results.workflows,
       flag |-> changeset.workflowsJsonChanged] }

\* the artifact was stored before the run with the fingerprint of the new value
SameFingerprintAtStart(a) ==
    /\ a.name \in DOMAIN output0
    /\ calculateJsonHash(JSONparse(output0[a.name])) = calculateJsonHash(a.data)

\* C12: in a completed run each of the three artifacts is rewritten if and
\* only if it was not stored before or the fingerprint of the new value differs
\* from the fingerprint of the stored one; its flag in the changeset (in memory
\* and in changeset.json) is true exactly when it was rewritten; with the flag
\* false the stored text is the one from before the run, and with the flag
\* true it is the text of the new value.
C12_ArtifactRewrittenIffChanged ==
    pc = "done" =>
        \A a \in ArtifactsOfRun :
            /\ a.flag <=> ~SameFingerprintAtStart(a)
            /\ a.flag <=> (a.name \notin DOMAIN output0 \/ output[a.name] # output0[a.name])
            /\ ~a.flag => output[a.name] = output0[a.name]
            /\ a.flag => output[a.name] = JSONstringify(a.data)
            /\ JSONparse(output["changeset.json"]) = changeset

\* a second completed run rewrote the components and left the stored
\* workflows, whose fingerprint had not changed, as they were
C12_Witness ==
    /\ pc = "done"
    /\ "workflows.json" \in DOMAIN output0
    /\ "components.json" \in DOMAIN output0
    /\ changeset.componentsJsonChanged
    /\ output["components.json"] # output0["components.json"]
    /\ ~changeset.workflowsJsonChanged
    /\ output["workflows.json"] = output0["workflows.json"]

\* the cache file of f is a complete entry with the hash of f's current content
EntryIsCompleteForContent(f) ==
    /\ HasEntry(cache, f)
    /\ EntryIsValid(EntryOf(cache, f))
    /\ HasStoredFilePath(EntryOf(cache, f))
    /\ EntryOf(cache, f).sourceFileHash = calculateStringMD5(files[f])

\* what a run that starts from an empty cache and meets no I/O error puts in
\* components: the extraction of every scanned file that parses, in scan order
RECURSIVE FreshComponentsFrom(_)
FreshComponentsFrom(n) ==
    IF n > Len(FileOrder) THEN << >>
    ELSE (IF files[FileOrder[n]] \in {"form", "nav"}
          THEN << CachedMetadata(FileOrder[n], files[FileOrder[n]]) >>
          ELSE << >>) \o FreshComponentsFrom(n + 1)

\* every cache file at the start of the run was a complete entry or a file
\* that does not parse
CompleteOrUnparsableAtStart ==
    \A f \in CacheKeysAtStart :
        \/ EntryOf(cache0, f) = Garbage
        \/ EntryIsValid(EntryOf(cache0, f)) /\ HasStoredFilePath(EntryOf(cache0, f))

\* C13 (as stated, for caches that hold complete entries only): when a run
\* has been terminated in the per-file loop, every cache entry is as it was
\* before the run or is a complete entry with the hash of its file's current
\* content; and a complete run over such a cache, with no write error, yields
\* the components of a run that starts from an empty cache.
C13_TerminationLeavesValidCache ==
    /\ (pc = "killed" /\ WellFormedAtStart) =>
          \A f \in Files : EntryUnchanged(f) \/ EntryIsCompleteForContent(f)
    /\ (/\ pc = "done"
        /\ CompleteOrUnparsableAtStart
        /\ \A f \in ScannedPaths : files[f] \in {"form", "nav"} => ~log[f].error)
          => components = FreshComponentsFrom(1)

\* C14: within a run the files are processed strictly one at a time: at most
\* one operation is in flight, it belongs to the file the loop is at, the loop
\* is waiting for it, and every earlier file has its outcome recorded.
C14_OneFileAtATime ==
    /\ Cardinality(opsInFlight) <= 1
    /\ \A o \in opsInFlight :
          /\ o[1] = loopPos.k
          /\ o[2] = loopPos.op
          /\ loopPos.waiting
    /\ loopPos.k >= 1 => Len(res) = loopPos.k - 1

\* the cache write of the second file is in flight after the first file was
\* extracted and cached
C14_Witness ==
    /\ opsInFlight = {<< 2, "write" >>}
    /\ Len(res) = 1
    /\ res[1] = "cached"

\* C15 (as stated): every pattern that detectPatterns returns has a
\* confidence between 0 and 1, for any number of matching components and
\* matching actions.
C15_ConfidenceBounds ==
    res.called =>
        \A k \in 1..Len(res.value) :
            /\ res.value[k].confidence.den > 0
            /\ 0 <= res.value[k].confidence.num
            /\ res.value[k].confidence.num <= res.value[k].confidence.den

\* the position of a pattern in the declaration of PatternMatcher.patterns
DeclIndex(name) == CHOOSE n \in 1..Len(patterns) : patterns[n].name = name

\* the declared patterns that have a component of the argument matching them
PatternsWithMatch ==
    { patterns[n].name : n \in { m \in 1..Len(patterns) :
          \E k \in 1..Len(arg) : matchesPattern(arg[k].name, patterns[m].components) } }

ConfEqual(a, b) == a.num * b.den = b.num * a.den

\* C16: detectPatterns returns exactly the declared patterns that have at
\* least one matching component, each once and with its matching components,
\* in descending order of confidence, and patterns of equal confidence in the
\* order of their declaration.
C16_PatternsSortedStable ==
    res.called =>
        /\ { res.value[k].name : k \in 1..Len(res.value) } = PatternsWithMatch
        /\ Len(res.value) = Cardinality(PatternsWithMatch)
        /\ \A k \in 1..Len(res.value) :
              LET Match(c) ==
                    matchesPattern(c.name, patterns[DeclIndex(res.value[k].name)].components)
              IN  res.value[k].components = SelectSeq(arg, Match)
        /\ \A k, l \in 1..Len(res.value) : k < l =>
              /\ res.value[k].confidence.num * res.value[l].confidence.den
                    >= res.value[l].confidence.num * res.value[k].confidence.den
              /\ ConfEqual(res.value[k].confidence, res.value[l].confidence) =>
                    DeclIndex(res.value[k].name) < DeclIndex(res.value[l].name)

\* a result in which a pattern declared later comes first because of its
\* higher confidence, and two patterns of equal confidence follow each other
C16_Witness ==
    /\ res.called
    /\ \E k, l \in 1..Len(res.value) :
          /\ k < l
          /\ DeclIndex(res.value[k].name) > DeclIndex(res.value[l].name)
          /\ ~ConfEqual(res.value[k].confidence, res.value[l].confidence)
    /\ \E k, l \in 1..Len(res.value) :
          /\ k < l
          /\ ConfEqual(res.value[k].confidence, res.value[l].confidence)

\* the rules in their order: category, name keywords, prop keywords
CategoryRules ==
    << [category |-> "FORM", names |-> {"form", "input", "login", "register"},
        props |-> {"onsubmit", "form"}],
       [category |-> "NAVIGATION", names |-> {"nav", "menu", "link", "route"},
        props |-> {"href", "to", "path"}],
       [category |-> "INTERACTION", names |-> {"button", "click", "action"},
        props |-> {"onclick", "onpress"}],
       [category |-> "DISPLAY",
        names |-> {"view", "display", "show", "card", "list", "table"}, props |-> {}] >>

\* the rules whose name test or prop test passes on the argument
PassingRules ==
    { n \in 1..Len(CategoryRules) :
        \/ LowerIncludes(arg.componentName) \cap CategoryRules[n].names # {}
        \/ \E k \in 1..Len(arg.props) :
              LowerIncludes(arg.props[k].name) \cap CategoryRules[n].props # {} }

\* C17: categorizeComponent returns one of the five categories: the category
\* of the first rule, in the order FORM, NAVIGATION, INTERACTION, DISPLAY,
\* whose name or prop test passes, and LAYOUT when none passes.
C17_FirstMatchWins ==
    res.called =>
        /\ res.value \in ComponentCategories
        /\ PassingRules = {} => res.value = "LAYOUT"
        /\ PassingRules # {} =>
              \E n \in PassingRules :
                  /\ \A m \in PassingRules : n <= m
                  /\ res.value = CategoryRules[n].category

\* a component whose name passes the display rule and whose props pass the
\* navigation and the interaction rule was put in the navigation category
C17_Witness ==
    /\ res.called
    /\ PassingRules = {2, 3, 4}
    /\ res.value = "NAVIGATION"

\* the file of scenario A: LoginForm.jsx, a default export of the identifier
\* LoginForm, whose arrow function destructures onLogin and redirectUrl
ScenarioA ==
    [basename |-> << "LoginForm" >>,
     ast |-> [exports |-> << DefaultIdentifier >>, interfaces |-> << >>, propTypes |-> << >>,
              functions |-> << [type |-> "ObjectPattern",
                                keys |-> << "onLogin", "redirectUrl" >>] >>]]

\* the description contains "Sign in"
IncludesSignIn(description) == description = Text("Sign in to your account")

PropNames(props) == { props[k].name : k \in 1..Len(props) }

\* C18: scenario A yields the name LoginForm, props with onLogin and
\* redirectUrl, a user action of type submit, the category FORM and a
\* description containing "Sign in".
C18_ScenarioA ==
    (res.called /\ arg = ScenarioA) =>
        /\ res.value.name = "LoginForm"
        /\ {"onLogin", "redirectUrl"} \subseteq PropNames(res.value.props)
        /\ \E k \in 1..Len(res.value.userActions) : res.value.userActions[k].type = "submit"
        /\ res.value.semanticCategory = "FORM"
        /\ IncludesSignIn(res.value.description)

\* the definitions the three sources of the argument declare, by priority:
\* the prop-descriptor object, the interfaces named ...Props, the
\* destructuring patterns
DescriptorProps == CollectPropTypes(FlattenSeq(arg.ast.propTypes), << >>)

DeclaredInterfaceProps ==
    FlattenSeq([k \in 1..Len(arg.ast.interfaces) |-> InterfaceProps(arg.ast.interfaces[k])])

\* the definition of the highest-priority source declaring the name
RetainedDefinition(name) ==
    IF name \in PropNames(DescriptorProps)
    THEN { DescriptorProps[k] : k \in { m \in 1..Len(DescriptorProps) :
                                          DescriptorProps[m].name = name } }
    ELSE IF name \in PropNames(DeclaredInterfaceProps)
    THEN { DeclaredInterfaceProps[k] : k \in { m \in 1..Len(DeclaredInterfaceProps) :
                                                 DeclaredInterfaceProps[m].name = name } }
    ELSE { [name |-> name, type |-> "any", required |-> FALSE] }

\* C19: the props list of extractProps holds each prop name at most once, and
\* the definition kept for a name is the one of the highest-priority source
\* declaring it: prop-descriptor object, then ...Props interface, then the
\* destructuring pattern of the first parameter.
C19_PropsMergedByPriority ==
    res.called =>
        /\ \A a, b \in 1..Len(res.value.props) :
               a # b => res.value.props[a].name # res.value.props[b].name
        /\ \A k \in 1..Len(res.value.props) :
               res.value.props[k] \in RetainedDefinition(res.value.props[k].name)

\* the export statements of the argument that carry a name, by kind
NamingExports(kind) ==
    { k \in 1..Len(arg.ast.exports) :
        /\ arg.ast.exports[k].kind = kind
        /\ arg.ast.exports[k].name # ""
        /\ arg.ast.exports[k].declaration
               \in {"Identifier", "FunctionDeclaration", "ClassDeclaration"} }

\* C20: whatever the order of the export statements, the component name is
\* the default-exported name when there is one, otherwise the name of a
\* named-exported function or class, otherwise the file name in
\* capitalized-word form; it is never empty.
C20_NamePriority ==
    res.called =>
        /\ res.value.name # ""
        /\ IF NamingExports("ExportDefaultDeclaration") # {}
           THEN \E k \in NamingExports("ExportDefaultDeclaration") :
                    res.value.name = arg.ast.exports[k].name
           ELSE IF NamingExports("ExportNamedDeclaration") # {}
           THEN \E k \in NamingExports("ExportNamedDeclaration") :
                    res.value.name = arg.ast.exports[k].name
           ELSE res.value.name \in {"LoginForm", "UserList"}

\* the built-in keys, by their place, that are substrings of the argument
SubstringKeys ==
    { k \in 1..Len(semanticMappings) :
        StringIncludes(arg.componentName, semanticMappings[k][1]) }

\* the description of the built-in mappings for the argument: the one of the
\* exact key, else the one of the first key that is a substring
BuiltinDescriptions ==
    IF ValuesAt(semanticMappings, arg.componentName) # {}
    THEN ValuesAt(semanticMappings, arg.componentName)
    ELSE { semanticMappings[k][2] : k \in { m \in SubstringKeys : \A n \in SubstringKeys : m <= n } }

C22_StepsFilterAllActions ==
    res.called =>
        \A w \in 1..Len(res.value) :
            \A k \in 1..Len(res.value[w].steps) :
                res.value[w].steps[k].actions =
                    SelectSeq(AllActions(arg),
                              LAMBDA a : StepFilter(res.value[w].steps[k].name, a))

\* a step of an emitted workflow lists an action that none of the workflow's
\* components has
C22_Witness ==
    /\ res.called
    /\ \E w \in 1..Len(res.value) :
          \E k \in 1..Len(res.value[w].steps) :
              \E n \in 1..Len(res.value[w].steps[k].actions) :
                  \A c \in 1..Len(res.value[w].components) :
                      ~Includes(res.value[w].components[c].userActions,
                                res.value[w].steps[k].actions[n])

\* C28: every workflow detectWorkflows emits has at least one component.
C28_WorkflowHasComponents ==
    res.called => \A w \in 1..Len(res.value) : res.value[w].components # << >>

\* the files of the run by how their iteration ended
FilesEnded(branches, withError) ==
    { f \in DOMAIN log : log[f].branch \in branches /\ log[f].error = withError }

\* the counts a summary of the run would carry
CountsOfRun ==
    [processed |-> Len(processedRelativeFilePaths),
     hit |-> Cardinality(FilesEnded({"hit"}, FALSE)),
     miss |-> Cardinality(FilesEnded({"miss", "stale"}, FALSE)),
     error |-> Cardinality({ f \in DOMAIN log : log[f].error })]

\* C23: a completed run has reported a summary with the counts of processed,
\* hit, miss and error files, and when a file was skipped because of an error
\* what it reported shows it.
C23_SummaryReported ==
    pc = "done" =>
        /\ \E m \in ConsoleOfRun :
              /\ {"processed", "hit", "miss", "error"} \subseteq DOMAIN m
              /\ [k \in {"processed", "hit", "miss", "error"} |-> m[k]] = CountsOfRun
        /\ \A f \in DOMAIN log :
              log[f].error => \E m \in ConsoleOfRun :
                  /\ m.message = "Error processing file"
                  /\ m.path = f

\* the list holds no value twice
NoRepeat(seq) == \A a, b \in 1..Len(seq) : a # b => seq[a] # seq[b]

\* C24: in a written changeset the three path lists are pairwise disjoint and
\* hold no path twice; every new or changed path is a path of the run's scan,
\* its metadata is in the run's components, and its cache entry holds the hash
\* of the file's content.
C24_ChangesetWellFormed ==
    changeset.written =>
        /\ NoRepeat(changeset.newComponents)
        /\ NoRepeat(changeset.changedComponents)
        /\ NoRepeat(changeset.deletedComponents)
        /\ SeqToSet(changeset.newComponents) \cap SeqToSet(changeset.changedComponents) = {}
        /\ SeqToSet(changeset.newComponents) \cap SeqToSet(changeset.deletedComponents) = {}
        /\ SeqToSet(changeset.changedComponents) \cap SeqToSet(changeset.deletedComponents) = {}
        /\ \A f \in SeqToSet(changeset.newComponents) \cup SeqToSet(changeset.changedComponents) :
              /\ f \in ScannedPaths
              /\ ComponentsOf(f) # << >>
              /\ HasEntry(cache, f)
              /\ EntryIsValid(EntryOf(cache, f))
              /\ EntryOf(cache, f).sourceFileHash = calculateStringMD5(files[f])

\* a changeset was written that lists a changed file and a deleted one
C24_Witness ==
    /\ changeset.written
    /\ changeset.changedComponents # << >>
    /\ changeset.deletedComponents # << >>

\* the file a path of a changeset names
FileOfPath(p) == IF pathIsAbsolute(p) THEN pathRelative(projectRoot, p) ELSE p

\* the changeset the previous run left in the output directory
ChangesetBefore == JSONparse(output0["changeset.json"])

\* C25: a removed file is reported as deleted once: a path that the previous
\* completed run listed in deletedComponents, and whose file is still absent,
\* is not listed in deletedComponents by the run that follows, whatever the
\* cache held when the file was removed.
C25_DeletedReportedOnce ==
    (pc = "done" /\ prev.done) =>
        \A p \in SeqToSet(ChangesetBefore.deletedComponents) :
            files[FileOfPath(p)] = "absent" => ~Includes(changeset.deletedComponents, p)

\* the first run of a never-analyzed project stopped before it wrote the
\* changeset, and the second run is over: what the cache held when the second
\* run started was written by the first
SecondRunAfterStoppedRun ==
    /\ pc = "done"
    /\ runs = 2
    /\ "changeset.json" \notin DOMAIN output0

\* the stopped run left a complete entry for f with the hash of the content f
\* has now
WrittenByStoppedRun(f) ==
    /\ files[f] \in Sources
    /\ HasEntry(cache0, f)
    /\ EntryIsValid(EntryOf(cache0, f))
    /\ EntryOf(cache0, f).sourceFileHash = calculateStringMD5(files[f])

\* C26: no change is lost across a stopped run: a file whose cache entry was
\* written by a run that stopped before writing the changeset is listed in
\* newComponents or changedComponents by the next run that completes.
C26_NoChangeLost ==
    SecondRunAfterStoppedRun =>
        \A f \in Files : WrittenByStoppedRun(f) =>
            \/ Includes(changeset.newComponents, f)
            \/ Includes(changeset.changedComponents, f)

\* the documentation a full generation from the stored components would hold:
\* the structural files rendered from them and each of their documents
UpToDate(d, stored) ==
    LET full == generateDocumentation(NoDocs, stored)
    IN  /\ d.structure = full.structure
        /\ \A key \in DOMAIN full.features :
              key \in DOMAIN d.features /\ d.features[key] = full.features[key]

\* C27: whenever generate skips regeneration because the changeset has no
\* new, changed or deleted path and its three flags are false, the
\* documentation on disk was generated from the components that analyze has
\* stored in components.json.
C27_SkipMeansUpToDate ==
    [][(docs'.generates # docs.generates /\ docs'.last = "skipped")
          => UpToDate(docs', JSONparse(output'["components.json"]))]_vars

\* every plugin the four registries hold, registry after registry
HeldPlugins ==
    pluginManager.analyzers \o pluginManager.generators \o pluginManager.nlpPlugins
        \o pluginManager.patternMatcherPlugins

HeldIds == { HeldPlugins[k].id : k \in 1..Len(HeldPlugins) }

\* C29: after any sequence of discoverAndLoadPlugins and unloadPlugin calls,
\* no two plugins held in the four registries share a plugin ID, and
\* loadedPluginIds is the set of the IDs of the plugins held.
C29_RegistriesConsistent ==
    /\ \A m, n \in 1..Len(HeldPlugins) : m # n => HeldPlugins[m].id # HeldPlugins[n].id
    /\ pluginManager.loadedPluginIds = HeldIds

Getters == {"getAnalyzer", "getGenerator", "getNlpProcessor", "getPatternMatcher"}

\* C30: once unloadPlugin(id) has returned for a registered plugin, also one
\* whose onUnload throws, no registry holds a plugin with that ID and the ID
\* is not in loadedPluginIds; and until the plugin is loaded again no getter
\* creates an instance from it.
C30_UnloadedIsGone ==
    /\ (call.op = "unloadPlugin" /\ call.found)
          => call.pluginId \notin HeldIds \cup pluginManager.loadedPluginIds
    /\ (call.op \in Getters /\ call.result.from = "plugin")
          => call.result.plugin \notin pluginHistory.unloaded

====
